---- MODULE Spec2Model ----
(***************************************************************************)
(* Two-wheeler telemetry pipeline: the sampler process (main2.py), its     *)
(* shared-memory bridge (shared_memory_bridge.py), the backend helpers it  *)
(* calls (firebase_uploader.py) and the warning engine's shared-memory     *)
(* reader (Warning_Generate.py).                                           *)
(*                                                                         *)
(* Threads are interleaved one statement group at a time.  Sleeps and      *)
(* timeouts carry no clock: a wait that the code bounds by a timeout may   *)
(* end either because its condition became true or because the time ran    *)
(* out.                                                                    *)
(***************************************************************************)
EXTENDS Integers, Sequences, FiniteSets, TLC

\* ---------------------------------------------------------------- bounds
MaxRideId == 1      \* ride ids the backend hands out: "0" .. ToString(MaxRideId)
MaxRides == 2       \* rides started in one process run
MaxSamples == 1     \* sampler ticks per ride under Spec
MaxQueue == 1       \* modelled capacity of csv_write_queue (maxsize=2000 in the code)
MaxBatchRides == 2  \* rides started in one process run under SpecBatch
MaxBatchSamples == 209  \* sampler ticks per ride under SpecBatch
MaxWrites == 3      \* write_batch calls of one caller under SpecBridge
MaxConsumerRides == 2   \* rides started in one process run under SpecConsumer
MaxWarningBatches == 1  \* batches the consumer appends to one warnings file
MaxMpuReads == 2    \* mpu_thread iterations under SpecSpeed
MaxGpsIterations == 2   \* gps_thread iterations under SpecSpeed
MaxSpeedSamples == 2    \* sampler ticks under SpecSpeed
MaxSpeedRides == 1  \* rides started under SpecSpeed
MaxClockSamples == 3    \* sampler ticks per ride under SpecClock
MaxClockRides == 2  \* rides started under SpecClock
MaxShutdownRides == 1   \* rides started under SpecShutdown
MaxLimitIterations == 4   \* iterations of speed_limit_thread
MaxCtorDepth == 4   \* nested __init__ calls before the interpreter's RecursionError
MaxWarnRides == 1    \* rides started under SpecWarn
MaxWarnSamples == 209  \* sampler ticks per ride under SpecWarn
MaxMainWrites == 2   \* batches main() appends to one warnings file under SpecWarn
MaxRideBatches == 2  \* published batches of a ride that are counted
MaxCarryWrites == 1  \* batches main() appends under SpecCarry
MaxPushes == 8       \* cadences of the telemetry thread under SpecAuth

\* ------------------------------------------------------ program constants
CSV_BATCH_SIZE == 10
BATCH_SIZE == 104
FIELDS_PER_POINT == 11
FALLBACK_SAMPLES == 104

\* Fixed point for the speed estimator.  Accelerations in g are counted in
\* micro-g, accelerations in m/s^2 in 1e-8 m/s^2, time in ticks of 10 ms,
\* speeds in m/s in 1e-4 m/s and speeds in km/h in 0.01 km/h.
OPTIMAL_BIAS == 117588      \* 0.117588 g
DEADBAND_G == 20000         \* 0.02 g
G_TO_MS2 == 981             \* 9.81 m/s^2 per g: 981e-8 m/s^2 per micro-g
SPEED_CAP_MS == 833333      \* 83.3333 m/s
GPS_SPEED_MIN == 50         \* 0.5 km/h
GPS_SPEED_MAX == 30000      \* 300.0 km/h
GPS_TIMEOUT_SECONDS == 500  \* 5.0 s
SPEED_LIMIT_REFRESH_S == 500000   \* 50 s in units of 0.1 ms
SAMPLE_INTERVAL == 96       \* 1/104 s, in units of 0.1 ms

\* Python None, and the decimal strings used as ride ids.
None == "None"
RideIds == {ToString(n) : n \in 0..MaxRideId}

\* Python values whose type matters to the code that handles them.
PyNone == << "NoneType" >>
PyInt(n) == << "int", n >>
PyStr(t) == << "str", t >>
PyFloat(x) == << "float", x >>
\* a != b: values of different types are unequal.
PyNe(a, b) == IF a[1] # b[1] THEN TRUE ELSE a # b
\* str(n) of an int.
str(v) == PyStr(ToString(v[2]))

\* str.isdigit() and int(str) on the values ride_id can hold.
IsDigit(s) == s \in RideIds
IntOf(s) == CHOOSE n \in 0..MaxRideId : ToString(n) = s

\* firebase_uploader.py: the names the module defines at top level.
FirebaseUploaderNames ==
  { "_sign_in_email_password", "_refresh_token", "_current_auth_token",
    "update_rider_speed", "build_speeding_warning", "update_rider_mpu",
    "init_ride", "init_ride_for_ride", "init_auth", "_ride_status_url",
    "get_control_flags", "get_control_flags_for_ride", "get_next_ride_id",
    "set_control_flag", "toggle_calculate_model_off", "upload_raw_data",
    "write_processed_summary", "process_model_placeholder",
    "set_ride_end_time", "finalize_ride", "push_realtime_batch" }

VARIABLES
  \* main2.py globals
  current_is_active,
  control_poll_queue,
  csv_write_queue,
  batch_buffer,
  shm_writer,          \* TRUE: a SensorDataWriter, FALSE: None
  \* main() and wait_until_active() locals
  pc,
  ride_id,
  sample_count,
  rides_started,
  \* control_poll_thread
  cp_pc,
  cp_result,           \* what get_control_flags_for_ride returned
  cp_failed,           \* whether every request of that call failed
  \* csv_writer_thread instances and the files they append to
  writers,
  csv_files,
  \* shared memory
  flag_array,
  data_array,
  \* history
  ride_log,            \* finalization steps of the current ride, in order
  flag_seen_true,      \* the backend answered is_active = true for ride_id
  \* main2.py speed state
  latest_gps,          \* [fix, spd]: lat/lon present, speed in 0.01 km/h
  latest_speed_source,
  last_accel_ms2,
  last_speed_calc_ts,
  current_speed_ms,
  gps_locals,          \* gps_thread's local variables of the same two names
  main_locals,         \* main()'s local variables of the same two names
  gps_last_update_time, \* when gps_thread last published, in ticks
  gps_serial,          \* gps_utils.init_gps() succeeded: gps_thread runs
  perf_counter,        \* time.perf_counter(), in ticks of 10 ms
  mpu_reads,
  gps_iterations,
  \* main2.py sampler clock
  time_time,           \* time.time(), in units of 0.1 ms
  timestamp_ms,        \* main()'s timestamp_ms: that of the last sample taken
  next_sample_time,    \* main()'s next_sample_time, in units of 0.1 ms
  \* SensorDataWriter.__init__
  regions,             \* the two named shared-memory regions of the system
  ctor_pc,             \* position of the constructor
  ctor_depth,          \* nested calls of __init__ from its own handler
  self_shm,            \* [shm, flag_shm]: the handles self holds
  stale_at_boot,       \* a region existed when the constructor was called
  \* shutdown of either program
  stop_event,          \* main2.py's stop_event is set
  threads,             \* the worker threads: unstarted, running, ...
  shm_read_thread_active,  \* Warning_Generate.py's flag of that name
  wg_pc,               \* Warning_Generate.py main()'s position
  \* Warning_Generate.py
  rd_pc,               \* shared_memory_reader_thread's position
  rd_ride_id,
  rd_batch,
  current_ride_id,
  CSV_FILENAME,
  current_data_batch,
  warning_files,       \* contents of the warnings*.csv files
  \* main2.py mpu_thread
  latest_mpu,          \* the published reading: its acc_x, or None for
                       \* the tuple of six None
  mpu_read_ok,         \* history: a read of the device has succeeded
  \* main2.py speed_limit_thread
  latest_speed_limit,
  last_speed_limit_fetch,  \* 0.0, or the time.time() of the last lookup
  limit_iterations,
  \* Warning_Generate.py: the detectors
  warning_state,       \* the six warning slots, indexed 0..5
  lstm_last_prediction,
  lstm_model,          \* "None" or the loaded model
  last_update,         \* the update_warning call of the last iteration
  \* a caller of SensorDataWriter.write_batch
  wb_arg,
  wb_ret,
  wb_calls,
  \* Warning_Generate.py main()
  main_pc,             \* "check", or "write" once the batch is copied
  current_batch,       \* main()'s local of that name
  snapshot_csv,        \* history: CSV_FILENAME when current_batch was copied
  snapshot_active,     \* history: the ride flag was set at that moment
  \* the locks of either program
  lock_at,             \* per thread: << block, step >> it has reached
  lock_held,           \* per thread: the locks it holds, innermost last
  last_step,           \* << thread, kind >> of the step taken last
  \* Warning_Generate.py from ride to ride
  ride_batches,        \* history: batches published since the reader last
                       \* discarded the batch, counted up to MaxRideBatches
  \* firebase_uploader.py
  ID_TOKEN,            \* _ID_TOKEN: None or a token
  REFRESH_TOKEN,       \* _REFRESH_TOKEN: None or a token
  token_due,           \* now >= _TOKEN_EXPIRY_EPOCH - 60
  refresh_revoked,     \* the backend no longer accepts the refresh token
  auth_calls,          \* history: the auth requests of the last push
  push_outcome,        \* history: how the last update_rider_speed ended
  pushes               \* cadences of the push thread so far

speed_vars == << latest_gps, latest_speed_source, last_accel_ms2,
                 last_speed_calc_ts, current_speed_ms, gps_locals,
                 main_locals, gps_last_update_time, gps_serial,
                 perf_counter, mpu_reads, gps_iterations >>
consumer_vars == << rd_pc, rd_ride_id, rd_batch, current_ride_id,
                    CSV_FILENAME, current_data_batch, warning_files >>
bridge_vars == << wb_arg, wb_ret, wb_calls >>
main_vars == << main_pc, current_batch, snapshot_csv,
               snapshot_active >>
lock_vars == << lock_at, lock_held, last_step >>
carry_vars == << ride_batches >>
auth_vars == << ID_TOKEN, REFRESH_TOKEN, token_due, refresh_revoked,
                auth_calls, push_outcome, pushes >>
clock_vars == << time_time, timestamp_ms, next_sample_time >>
ctor_vars == << regions, ctor_pc, ctor_depth, self_shm, stale_at_boot >>
stop_vars == << stop_event, threads, shm_read_thread_active, wg_pc >>
mpu_vars == << latest_mpu, mpu_read_ok >>
limit_vars == << latest_speed_limit, last_speed_limit_fetch,
                 limit_iterations >>
detect_vars == << warning_state, lstm_last_prediction, lstm_model,
                  last_update >>
sampler_vars == << current_is_active, control_poll_queue, csv_write_queue,
                   batch_buffer, shm_writer, pc, ride_id, sample_count,
                   rides_started, cp_pc, cp_result, cp_failed, writers,
                   csv_files, flag_array, data_array, ride_log,
                   flag_seen_true >>

vars == << current_is_active, control_poll_queue, csv_write_queue,
           batch_buffer, shm_writer, pc, ride_id, sample_count, rides_started,
           cp_pc, cp_result, cp_failed, writers, csv_files, flag_array,
           data_array, ride_log, flag_seen_true, speed_vars, consumer_vars,
           bridge_vars, clock_vars, stop_vars, ctor_vars, detect_vars,
           limit_vars, mpu_vars, main_vars, lock_vars,
           carry_vars, auth_vars >>

\* --------------------------------------------------------- shared memory
\* A point of a batch: which sample it is, and its shape as write_batch
\* sees it: "ok" (11 numeric fields), "short" (len(point) != 11) or "bad"
\* (11 fields, one of which numpy cannot convert, so the row assignment
\* raises).
ZeroPoint == [ride |-> None, no |-> 0, n |-> 0, kind |-> "ok",
              spd |-> PyFloat(0), mpu |-> PyFloat(0)]
ZeroArray == [i \in 1..BATCH_SIZE |-> ZeroPoint]

\* len(point) of a point.
PointLen(point) ==
  IF point.kind = "short" THEN FIELDS_PER_POINT - 1 ELSE FIELDS_PER_POINT

\* Index of the first row whose assignment raises, BATCH_SIZE + 1 if none.
FirstBad(batch_data) ==
  LET bad == {i \in 1..Len(batch_data) : batch_data[i].kind = "bad"}
  IN IF bad = {} THEN BATCH_SIZE + 1
     ELSE CHOOSE i \in bad : \A j \in bad : i <= j

\* SensorDataWriter.write_batch: the value returned and the slot afterwards.
write_batch(arr, batch_data) ==
  IF Len(batch_data) # BATCH_SIZE
  THEN [ok |-> FALSE, arr |-> arr]
  ELSE LET e == FirstBad(batch_data)
       IN [ok |-> e > BATCH_SIZE,
           arr |-> [i \in 1..BATCH_SIZE |->
                     IF i < e /\ PointLen(batch_data[i]) = FIELDS_PER_POINT
                     THEN batch_data[i] ELSE arr[i]]]

\* SensorDataWriter.set_ride_active / set_ride_inactive on the flag word.
set_ride_active(flag, rid) == [flag EXCEPT ![1] = 1, ![2] = rid]
set_ride_inactive(flag) == [flag EXCEPT ![1] = 0]

\* ------------------------------------------------------------- backend
\* One HTTP GET of the ride-scoped ride_status document is answered "true"
\* or "false" (status 200 and the is_active of the body), "non200" or
\* "raise" (timeout, connection error).  The rider's app may switch a
\* ride's flag between any two requests, so the body of a 200 answer is the
\* backend's choice at each request.
\* The two legacy documents: 200 with is_active true or false, or a failure
\* (a non-200 status and an exception both lead on to the next location).
LegacyResp == {"true", "false", "fail"}

\* firebase_uploader.get_control_flags_for_ride: r1 answers the ride-scoped
\* GET, r2 the top-level GET, r3 the /users fallback GET.  failed: no
\* request was answered with status 200, and the function returns its
\* default (False, False).
get_control_flags_for_ride(rid, r1, r2, r3) ==
  LET fallback == r3 = "true"
      top == IF r2 \in {"true", "false"} THEN r2 = "true" ELSE fallback
  IN IF rid # None /\ r1 \in {"true", "false"}
     THEN [is_active |-> r1 = "true", failed |-> FALSE]
     ELSE IF rid = None \/ r1 = "non200"
          THEN [is_active |-> top, failed |-> r2 = "fail" /\ r3 = "fail"]
          ELSE [is_active |-> fallback, failed |-> r3 = "fail"]

\* The answers to the requests one call issues: a request that is not
\* issued has no answer ("fail" stands in its place).
Answers ==
  { <<r1, "fail", "fail">> : r1 \in {"true", "false"} }
    \cup { <<"non200", r2, "fail">> : r2 \in {"true", "false"} }
    \cup { <<r1, "fail", r3>> : r1 \in {"non200", "raise"}, r3 \in LegacyResp }

\* The attribute lookup firebase_uploader.<name> succeeds.
HasAttr(name) == name \in FirebaseUploaderNames

\* The files the consumer writes: the default name and one per ride id.
warnings_csv(n) == "warnings_" \o ToString(n) \o ".csv"
WarningFileNames == {"warnings.csv"} \cup {warnings_csv(n) : n \in 0..MaxRideId}

\* ----------------------------------------------------------------- Init
\* The two programs, and the worker threads each of them starts:
\* main2.py lines 468-486 and 503-504, Warning_Generate.py lines 771-785.
Programs == {"main2.py", "Warning_Generate.py"}
SamplerThreads ==
  {"mpu_thread", "gps_thread", "speed_limit_thread", "update_image_cache",
   "print_worker_thread", "control_poll_thread", "csv_writer_thread"}
WarningThreads ==
  {"SharedMemReader", "LSTM", "Overspeeding", "Pothole", "SpeedyTurns",
   "HarshBraking", "SuddenAccel", "FirebasePush"}

\* The threads of program once its main() has started them.  gps_thread
\* is started when the GNSS device was found, csv_writer_thread at the
\* start of a ride; the reader first connects to the shared memory.
ThreadsAtStart(program, gps) ==
  [t \in SamplerThreads \cup WarningThreads |->
     IF program = "main2.py"
     THEN IF t \in SamplerThreads \ {"csv_writer_thread"}
             /\ (t = "gps_thread" => gps)
          THEN "running" ELSE "unstarted"
     ELSE IF t = "SharedMemReader" THEN "connecting"
          ELSE IF t \in WarningThreads THEN "running" ELSE "unstarted"]

\* The threads that run the code of a program: its workers and the main
\* thread.
LockThreads == SamplerThreads \cup WarningThreads \cup {"main"}

\* shared_memory_bridge.py lines 46-106 on a system without stale regions:
\* both regions created and zero-filled, the constructor has returned.
CtorReturned ==
  /\ regions = [data |-> "zero", flag |-> <<0, 0>>]
  /\ ctor_pc = "returned"
  /\ ctor_depth = 0
  /\ self_shm = [shm |-> TRUE, flag_shm |-> TRUE]
  /\ stale_at_boot = FALSE

\* main2.py line 40: last_speed_limit_fetch = 0.0, the epoch, which is more
\* than any interval before the time.time() of the run.
LongAgo == << "epoch", 0 >>

\* The module globals of program, and its threads once started.
InitGlobals(program) ==
  /\ stop_event = FALSE
  /\ shm_read_thread_active = FALSE
  /\ wg_pc = IF program = "Warning_Generate.py" THEN "monitor" ELSE "off"
  /\ pc = IF program = "main2.py" THEN "wait_loop" ELSE "off"
  /\ current_is_active = FALSE
  /\ control_poll_queue = << >>
  /\ csv_write_queue = << >>
  /\ batch_buffer = << >>
  /\ shm_writer \in BOOLEAN
  /\ ride_id = None
  /\ sample_count = 0
  /\ rides_started = 0
  /\ cp_pc = "sleep"
  /\ cp_result = FALSE
  /\ cp_failed = FALSE
  /\ writers = << >>
  /\ csv_files = [f \in RideIds \cup {None} |-> << >>]
  /\ flag_array = <<0, 0>>
  /\ data_array = ZeroArray
  /\ ride_log = << >>
  /\ flag_seen_true = FALSE
  /\ latest_gps = [fix |-> FALSE, spd |-> PyNone]
  /\ latest_speed_source = "UNKNOWN"
  /\ last_accel_ms2 = 0
  /\ last_speed_calc_ts = PyNone
  /\ current_speed_ms = 0
  /\ gps_locals = [current_speed_ms |-> PyNone, last_speed_calc_ts |-> PyNone]
  /\ main_locals = [current_speed_ms |-> PyNone, last_speed_calc_ts |-> PyNone]
  /\ gps_last_update_time = 0
  /\ gps_serial \in BOOLEAN
  /\ threads = ThreadsAtStart(program, gps_serial)
  /\ perf_counter = 0
  /\ mpu_reads = 0
  /\ gps_iterations = 0
  /\ time_time = 0
  /\ timestamp_ms = PyNone
  /\ next_sample_time = PyNone
  /\ rd_pc = "check"
  /\ rd_ride_id = PyNone
  /\ rd_batch = << >>
  /\ current_ride_id = PyNone
  /\ CSV_FILENAME = "warnings.csv"
  /\ current_data_batch = << >>
  /\ warning_files = [f \in WarningFileNames |-> << >>]
  /\ wb_arg = << >>
  /\ wb_ret = PyNone
  /\ wb_calls = 0
  /\ main_pc = "check"
  /\ current_batch = << >>
  /\ snapshot_csv = "warnings.csv"
  /\ snapshot_active = FALSE
  /\ lock_at = [t \in LockThreads |-> << 0, 0 >>]
  /\ lock_held = [t \in LockThreads |-> << >>]
  /\ last_step = << "main", "start" >>
  /\ ride_batches = 0
  /\ ID_TOKEN = PyNone
  /\ REFRESH_TOKEN = PyNone
  /\ token_due = TRUE
  /\ refresh_revoked = FALSE
  /\ auth_calls = << >>
  /\ push_outcome = "none"
  /\ pushes = 0
  /\ latest_mpu = PyNone
  /\ mpu_read_ok = FALSE
  /\ latest_speed_limit = PyNone
  /\ last_speed_limit_fetch = LongAgo
  /\ limit_iterations = 0
  /\ warning_state = [index \in 0..5 |-> 0]
  /\ lstm_last_prediction = "UNKNOWN"
  /\ last_update = << >>

\* Warning_Generate.py lines 195-200: the weights were loaded.
ModelLoaded == lstm_model = "Sequential"

\* The state after program has started its threads.
InitProgram(program) ==
  CtorReturned /\ InitGlobals(program) /\ ModelLoaded

\* main2.py after its threads were started.
InitRide == InitProgram("main2.py")

Init == InitRide /\ gps_serial

\* The process is alive until main() dies of an uncaught exception.
Alive == pc \notin {"crashed", "exited"}
Idle == pc \in {"wait_loop", "wait_get_id", "wait_recheck", "wait_poll"}

\* --------------------------------------------------- control_poll_thread
\* Lines 379-392: after the sleep, peek the ride id and ask the backend.
ControlPollRequest(r1, r2, r3) ==
  /\ Alive
  /\ cp_pc = "sleep"
  /\ control_poll_queue # << >>
  /\ Head(control_poll_queue) # None
  /\ LET res == get_control_flags_for_ride(Head(control_poll_queue), r1, r2, r3)
     IN /\ cp_result' = res.is_active
        /\ cp_failed' = res.failed
        /\ flag_seen_true' =
             (flag_seen_true
                \/ (res.is_active /\ Head(control_poll_queue) = ride_id))
  /\ cp_pc' = "assign"
  /\ UNCHANGED << auth_vars, carry_vars, lock_vars, main_vars, mpu_vars, limit_vars, detect_vars, ctor_vars, stop_vars, clock_vars, speed_vars, consumer_vars, bridge_vars,
                  current_is_active, control_poll_queue,
                  csv_write_queue, batch_buffer, shm_writer, pc, ride_id,
                  sample_count, rides_started, writers, csv_files,
                  flag_array, data_array, ride_log >>

\* Lines 393-394: publish the answer.
ControlPollAssign ==
  /\ Alive
  /\ cp_pc = "assign"
  /\ current_is_active' = cp_result
  /\ cp_pc' = "sleep"
  /\ cp_result' = FALSE
  /\ cp_failed' = FALSE
  /\ UNCHANGED << auth_vars, carry_vars, lock_vars, main_vars, mpu_vars, limit_vars, detect_vars, ctor_vars, stop_vars, clock_vars, speed_vars, consumer_vars, bridge_vars,
                  control_poll_queue, csv_write_queue, batch_buffer,
                  shm_writer, pc, ride_id, sample_count, rides_started,
                  writers, csv_files, flag_array, data_array, ride_log,
                  flag_seen_true >>

\* ----------------------------------------------------- wait_until_active
\* Line 407: the loop condition; when it fails, line 433 returns ride_id.
WaitLoop ==
  /\ pc = "wait_loop"
  /\ pc' = IF current_is_active THEN "start" ELSE "wait_get_id"
  /\ UNCHANGED << auth_vars, carry_vars, lock_vars, main_vars, mpu_vars, limit_vars, detect_vars, ctor_vars, stop_vars, clock_vars, speed_vars, consumer_vars, bridge_vars,
                  current_is_active, control_poll_queue,
                  csv_write_queue, batch_buffer, shm_writer, ride_id,
                  sample_count, rides_started, cp_pc, cp_result, cp_failed,
                  writers, csv_files, flag_array, data_array, ride_log,
                  flag_seen_true >>

\* Lines 409-416: get_next_ride_id; what it returns is the backend's choice.
WaitGetRideId(r) ==
  /\ pc = "wait_get_id"
  /\ ride_id' = r
  /\ pc' = "wait_recheck"
  /\ flag_seen_true' = FALSE
  /\ UNCHANGED << auth_vars, carry_vars, lock_vars, main_vars, mpu_vars, limit_vars, detect_vars, ctor_vars, stop_vars, clock_vars, speed_vars, consumer_vars, bridge_vars,
                  current_is_active, control_poll_queue,
                  csv_write_queue, batch_buffer, shm_writer, sample_count,
                  rides_started, cp_pc, cp_result, cp_failed, writers,
                  csv_files, flag_array, data_array, ride_log >>

\* Lines 418-419.
WaitRecheck ==
  /\ pc = "wait_recheck"
  /\ pc' = IF current_is_active THEN "start" ELSE "wait_poll"
  /\ UNCHANGED << auth_vars, carry_vars, lock_vars, main_vars, mpu_vars, limit_vars, detect_vars, ctor_vars, stop_vars, clock_vars, speed_vars, consumer_vars, bridge_vars,
                  current_is_active, control_poll_queue,
                  csv_write_queue, batch_buffer, shm_writer, ride_id,
                  sample_count, rides_started, cp_pc, cp_result, cp_failed,
                  writers, csv_files, flag_array, data_array, ride_log,
                  flag_seen_true >>

\* Lines 421-432: poll the flag of ride_id; break when it is set.
WaitPoll(r1, r2, r3) ==
  /\ pc = "wait_poll"
  /\ LET res == get_control_flags_for_ride(ride_id, r1, r2, r3)
     IN /\ current_is_active' = (current_is_active \/ res.is_active)
        /\ pc' = IF res.is_active THEN "start" ELSE "wait_loop"
        /\ flag_seen_true' = (flag_seen_true \/ res.is_active)
  /\ UNCHANGED << auth_vars, carry_vars, lock_vars, main_vars, mpu_vars, limit_vars, detect_vars, ctor_vars, stop_vars, clock_vars, speed_vars, consumer_vars, bridge_vars,
                  control_poll_queue, csv_write_queue, batch_buffer,
                  shm_writer, ride_id, sample_count, rides_started, cp_pc,
                  cp_result, cp_failed, writers, csv_files, flag_array,
                  data_array, ride_log >>

\* ------------------------------------------------------------------ main
\* Line 521: batch_buffer.clear() at the start of a ride.
ClearAtRideStart(buf) == << >>

\* Line 636: batch_buffer[:] = batch_buffer[104:] after a successful write.
KeepOverflowFromLast(buf) == SubSeq(buf, BATCH_SIZE, Len(buf))
KeepOverflow(buf) == SubSeq(buf, BATCH_SIZE + 1, Len(buf))

\* Lines 499-535: start the ride's CSV writer thread, offer the ride id to
\* the control-poll queue, clear the batch buffer and raise the flag.
\* ride_id.isdigit() on None raises AttributeError, which nothing catches.
\* Lines 533-535 assign current_speed_ms and last_speed_calc_ts, which
\* main() does not declare global: they are two locals of main(), and the
\* speed state is left as it is.
StartRide(max_rides) ==
  /\ pc = "start"
  /\ rides_started < max_rides
  /\ rides_started' = rides_started + 1
  /\ writers' = Append(writers, [file |-> ride_id, batch |-> << >>])
  /\ control_poll_queue' =
       IF Len(control_poll_queue) < 1
       THEN Append(control_poll_queue, ride_id) ELSE control_poll_queue
  /\ threads' = [threads EXCEPT !["csv_writer_thread"] = "running"]
  /\ next_sample_time' = PyFloat(time_time)
  /\ sample_count' = 0
  /\ batch_buffer' = ClearAtRideStart(batch_buffer)
  /\ ride_log' = << >>
  /\ IF shm_writer /\ ride_id = None
     THEN pc' = "crashed" /\ UNCHANGED << flag_array, main_locals >>
     ELSE /\ pc' = "sample"
          /\ flag_array' =
               IF shm_writer
               THEN set_ride_active(flag_array,
                                    IF IsDigit(ride_id) THEN IntOf(ride_id) ELSE 0)
               ELSE flag_array
          /\ main_locals' = [current_speed_ms |-> PyFloat(0),
                             last_speed_calc_ts |-> PyNone]
  /\ UNCHANGED << auth_vars, carry_vars, lock_vars, main_vars, mpu_vars, limit_vars, detect_vars, ctor_vars, stop_event, shm_read_thread_active, wg_pc,
                  time_time, timestamp_ms,
                  latest_gps, latest_speed_source, last_accel_ms2,
                  last_speed_calc_ts, current_speed_ms, gps_locals,
                  gps_last_update_time, gps_serial,
                  perf_counter, mpu_reads, gps_iterations,
                  consumer_vars, bridge_vars,
                  current_is_active, csv_write_queue, shm_writer,
                  ride_id, cp_pc, cp_result, cp_failed, csv_files,
                  data_array, flag_seen_true >>

\* Lines 543-642: one iteration of the sampling loop; elapsed is the wall
\* time since the previous reading of the clock at line 561 (the sleep of
\* lines 545-548, if there was one, and the time the code takes to run).
\* The rows and points of the model are told apart by ride and number;
\* their timestamp is the value of timestamp_ms when they were emitted.
\* When the ride is no longer active it leaves for the finalization;
\* otherwise the sample goes to the CSV queue (dropped when the queue is
\* full) and to the batch buffer, which is written to the slot once it
\* holds 104 points.
Sample(limit, elapsed) ==
  /\ pc = "sample"
  /\ time_time' = time_time + elapsed
  /\ timestamp_ms' = PyInt(time_time' \div 10)
  /\ IF ~current_is_active
     THEN /\ pc' = "set_inactive"
          /\ UNCHANGED << csv_write_queue, batch_buffer, sample_count,
                          data_array >>
     ELSE /\ sample_count < limit
          /\ pc' = pc
          /\ sample_count' = sample_count + 1
          /\ LET spd == latest_gps.spd
                 row == [ride |-> ride_id, no |-> rides_started, spd |-> spd,
                         speed_source |-> latest_speed_source,
                         mpu |-> latest_mpu]
                 point == [ride |-> ride_id, no |-> rides_started,
                           n |-> sample_count, kind |-> "ok", spd |-> spd,
                           mpu |-> latest_mpu]
                 buf == Append(batch_buffer, point)
                 res == write_batch(data_array, SubSeq(buf, 1, BATCH_SIZE))
             IN /\ csv_write_queue' =
                     IF Len(csv_write_queue) < MaxQueue
                     THEN Append(csv_write_queue, row) ELSE csv_write_queue
                /\ IF ~shm_writer
                   THEN UNCHANGED << batch_buffer, data_array >>
                   ELSE IF Len(buf) < BATCH_SIZE
                   THEN /\ batch_buffer' = buf
                        /\ UNCHANGED data_array
                   ELSE /\ data_array' = res.arr
                        /\ batch_buffer' =
                             IF res.ok THEN KeepOverflow(buf)
                             ELSE << >>
  /\ UNCHANGED << auth_vars, carry_vars, lock_vars, main_vars, mpu_vars, limit_vars, detect_vars, ctor_vars, stop_vars, speed_vars, consumer_vars, bridge_vars,
                  current_is_active, control_poll_queue, shm_writer,
                  ride_id, rides_started, cp_pc, cp_result, cp_failed,
                  writers, csv_files, flag_array, ride_log, flag_seen_true >>

\* The sampling loop in the specifications that do not follow the wall
\* clock: it stays at its initial value.
Tick(limit) == Sample(limit, 0) /\ UNCHANGED next_sample_time

\* Lines 545-551 and the rest of the iteration: the code ran (or the thread
\* was held up) for run since the clock was last read; the loop sleeps
\* until next_sample_time when that is more than 0.1 ms ahead, and moves
\* the deadline on by one interval.  The clocks time.perf_counter() and
\* time.time() advance together.
TimedSample(limit, run) ==
  /\ pc = "sample"
  /\ LET now == time_time + run
         woken == IF next_sample_time[2] - now > 1
                  THEN next_sample_time[2] ELSE now
     IN Sample(limit, woken - time_time)
  /\ next_sample_time' = PyFloat(next_sample_time[2] + SAMPLE_INTERVAL)

\* A finalization step of ride_id, with the samples emitted so far.
LogEntry(step) == [step |-> step, ride |-> ride_id, samples |-> sample_count]

\* Lines 578-583: lower the flag.
SetInactive ==
  /\ pc = "set_inactive"
  /\ pc' = "drain"
  /\ flag_array' = IF shm_writer THEN set_ride_inactive(flag_array) ELSE flag_array
  /\ ride_log' = IF shm_writer
                 THEN Append(ride_log, LogEntry("flag_cleared"))
                 ELSE ride_log
  /\ UNCHANGED << auth_vars, carry_vars, lock_vars, main_vars, mpu_vars, limit_vars, detect_vars, ctor_vars, stop_vars, clock_vars, speed_vars, consumer_vars, bridge_vars,
                  current_is_active, control_poll_queue,
                  csv_write_queue, batch_buffer, shm_writer, ride_id,
                  sample_count, rides_started, cp_pc, cp_result, cp_failed,
                  writers, csv_files, data_array, flag_seen_true >>

\* Lines 585-588: wait until the CSV queue is empty or 5 s have passed.
DrainQueue(timed_out) ==
  /\ pc = "drain"
  /\ csv_write_queue = << >> \/ timed_out
  /\ pc' = "consumer_wait"
  /\ ride_log' = Append(ride_log, LogEntry("drain"))
  /\ UNCHANGED << auth_vars, carry_vars, lock_vars, main_vars, mpu_vars, limit_vars, detect_vars, ctor_vars, stop_vars, clock_vars, speed_vars, consumer_vars, bridge_vars,
                  current_is_active, control_poll_queue,
                  csv_write_queue, batch_buffer, shm_writer, ride_id,
                  sample_count, rides_started, cp_pc, cp_result, cp_failed,
                  writers, csv_files, flag_array, data_array,
                  flag_seen_true >>

\* Line 591: time.sleep(2.0) for the consumer.
ConsumerWait ==
  /\ pc = "consumer_wait"
  /\ pc' = "upload"
  /\ ride_log' = Append(ride_log, LogEntry("consumer_wait"))
  /\ UNCHANGED << auth_vars, carry_vars, lock_vars, main_vars, mpu_vars, limit_vars, detect_vars, ctor_vars, stop_vars, clock_vars, speed_vars, consumer_vars, bridge_vars,
                  current_is_active, control_poll_queue,
                  csv_write_queue, batch_buffer, shm_writer, ride_id,
                  sample_count, rides_started, cp_pc, cp_result, cp_failed,
                  writers, csv_files, flag_array, data_array,
                  flag_seen_true >>

\* Lines 593-608 and 495-497: call the upload, whose failure is caught and
\* printed, then leave the sampling loop; the ride loop calls
\* wait_until_active again, whose ride_id starts as None.
Upload ==
  /\ pc = "upload"
  /\ pc' = "wait_loop"
  /\ flag_seen_true' = FALSE
  /\ ride_log' = IF HasAttr("upload_raw_data_to_firebase")
                 THEN Append(ride_log, LogEntry("upload"))
                 ELSE ride_log
  /\ ride_id' = None
  /\ UNCHANGED << auth_vars, carry_vars, lock_vars, main_vars, mpu_vars, limit_vars, detect_vars, ctor_vars, stop_vars, clock_vars, speed_vars, consumer_vars, bridge_vars,
                  current_is_active, control_poll_queue,
                  csv_write_queue, batch_buffer, shm_writer, sample_count,
                  rides_started, cp_pc, cp_result, cp_failed, writers,
                  csv_files, flag_array, data_array >>

\* ------------------------------------------------------ csv_writer_thread
WriteRows(files, f, rows) == [files EXCEPT ![f] = files[f] \o rows]

\* Lines 323-348: take one row; write the batch once it holds 10 rows.
WriterGet(w) ==
  /\ Alive
  /\ csv_write_queue # << >>
  /\ csv_write_queue' = Tail(csv_write_queue)
  /\ LET b == Append(writers[w].batch, Head(csv_write_queue))
     IN IF Len(b) >= CSV_BATCH_SIZE
        THEN /\ csv_files' = WriteRows(csv_files, writers[w].file, b)
             /\ writers' = [writers EXCEPT ![w].batch = << >>]
        ELSE /\ writers' = [writers EXCEPT ![w].batch = b]
             /\ UNCHANGED csv_files
  /\ UNCHANGED << auth_vars, carry_vars, lock_vars, main_vars, mpu_vars, limit_vars, detect_vars, ctor_vars, stop_vars, clock_vars, speed_vars, consumer_vars, bridge_vars,
                  current_is_active, control_poll_queue, batch_buffer,
                  shm_writer, pc, ride_id, sample_count, rides_started, cp_pc,
                  cp_result, cp_failed, flag_array, data_array, ride_log,
                  flag_seen_true >>

\* Lines 350-356: the get timed out (queue empty); flush what is pending.
WriterFlush(w) ==
  /\ Alive
  /\ csv_write_queue = << >>
  /\ writers[w].batch # << >>
  /\ csv_files' = WriteRows(csv_files, writers[w].file, writers[w].batch)
  /\ writers' = [writers EXCEPT ![w].batch = << >>]
  /\ UNCHANGED << auth_vars, carry_vars, lock_vars, main_vars, mpu_vars, limit_vars, detect_vars, ctor_vars, stop_vars, clock_vars, speed_vars, consumer_vars, bridge_vars,
                  current_is_active, control_poll_queue,
                  csv_write_queue, batch_buffer, shm_writer, pc, ride_id,
                  sample_count, rides_started, cp_pc, cp_result, cp_failed,
                  flag_array, data_array, ride_log, flag_seen_true >>

\* ----------------------------------------------------------------- Next
Next ==
  \/ \E a \in Answers : ControlPollRequest(a[1], a[2], a[3])
  \/ ControlPollAssign
  \/ WaitLoop
  \/ \E r \in RideIds : WaitGetRideId(r)
  \/ WaitRecheck
  \/ \E a \in Answers : WaitPoll(a[1], a[2], a[3])
  \/ StartRide(MaxRides)
  \/ Tick(MaxSamples)
  \/ SetInactive
  \/ \E t \in BOOLEAN : DrainQueue(t)
  \/ ConsumerWait
  \/ Upload
  \/ \E w \in DOMAIN writers : WriterGet(w)
  \/ \E w \in DOMAIN writers : WriterFlush(w)

Spec == Init /\ [][Next]_vars

\* The sampler with its shared-memory slot over whole batches.  The CSV
\* writer threads, which touch neither batch_buffer nor the slot, are left
\* out; the shared-memory writer was created, and the backend lists no
\* ride, so that every ride gets the id "0" (get_next_ride_id).
InitBatch == InitRide /\ shm_writer /\ gps_serial

NextBatch ==
  \/ \E a \in Answers : ControlPollRequest(a[1], a[2], a[3])
  \/ ControlPollAssign
  \/ WaitLoop
  \/ \E r \in {"0"} : WaitGetRideId(r)
  \/ WaitRecheck
  \/ \E a \in Answers : WaitPoll(a[1], a[2], a[3])
  \/ StartRide(MaxBatchRides)
  \/ Tick(MaxBatchSamples)
  \/ SetInactive
  \/ \E t \in BOOLEAN : DrainQueue(t)
  \/ ConsumerWait
  \/ Upload

SpecBatch == InitBatch /\ [][NextBatch]_vars

\* ------------------------------------------- a caller of write_batch
PyBool(b) == << "bool", b >>

\* The batches a caller hands to write_batch: of 103, 104 or 105 points, all
\* well-formed, or 104 points of which the one at position p has fewer than
\* 11 fields ("short") or a field numpy cannot convert ("bad").
BatchOf(gen, len, p, kind) ==
  [i \in 1..len |-> [ride |-> "0", no |-> gen, n |-> i - 1,
                     kind |-> IF i = p THEN kind ELSE "ok",
                     spd |-> PyFloat(0), mpu |-> PyFloat(0)]]
OddPositions == {1, 2, BATCH_SIZE}
Batches(gen) ==
  {BatchOf(gen, len, 0, "ok") :
     len \in {BATCH_SIZE - 1, BATCH_SIZE, BATCH_SIZE + 1}}
    \cup {BatchOf(gen, BATCH_SIZE, p, k) :
            p \in OddPositions, k \in {"short", "bad"}}

\* The caller builds its next batch.
BridgePrepare(batch) ==
  /\ wb_calls < MaxWrites
  /\ wb_arg = << >> \/ wb_ret # PyNone
  /\ wb_arg' = batch
  /\ wb_ret' = PyNone
  /\ wb_calls' = wb_calls + 1
  /\ UNCHANGED << auth_vars, carry_vars, lock_vars, main_vars, mpu_vars, limit_vars, detect_vars, ctor_vars, stop_vars, clock_vars, speed_vars, consumer_vars, current_is_active,
                  control_poll_queue, csv_write_queue, batch_buffer,
                  shm_writer, pc, ride_id, sample_count, rides_started,
                  cp_pc, cp_result, cp_failed, writers, csv_files,
                  flag_array, data_array, ride_log, flag_seen_true >>

\* shm_writer.write_batch(batch): the slot afterwards and the value returned.
BridgeWrite ==
  /\ shm_writer
  /\ wb_arg # << >>
  /\ wb_ret = PyNone
  /\ LET res == write_batch(data_array, wb_arg)
     IN /\ data_array' = res.arr
        /\ wb_ret' = PyBool(res.ok)
  /\ UNCHANGED << auth_vars, carry_vars, lock_vars, main_vars, mpu_vars, limit_vars, detect_vars, ctor_vars, stop_vars, clock_vars, speed_vars, consumer_vars, wb_arg, wb_calls,
                  current_is_active, control_poll_queue, csv_write_queue,
                  batch_buffer, shm_writer, pc, ride_id, sample_count,
                  rides_started, cp_pc, cp_result, cp_failed, writers,
                  csv_files, flag_array, ride_log, flag_seen_true >>

InitBridge == InitRide /\ shm_writer /\ gps_serial

NextBridge ==
  \/ \E batch \in Batches(wb_calls + 1) : BridgePrepare(batch)
  \/ BridgeWrite

SpecBridge == InitBridge /\ [][NextBridge]_vars

\* ------------------------------------- Warning_Generate.py: the consumer
\* Lines 551-565: read the flag; when the ride is not active clear the
\* published batch and forget the ride.
ReaderCheck ==
  /\ shm_writer
  /\ rd_pc = "check"
  /\ IF flag_array[1] # 0
     THEN /\ rd_pc' = "ride_id"
          /\ UNCHANGED << current_data_batch, current_ride_id, CSV_FILENAME >>
     ELSE /\ rd_pc' = "check"
          /\ current_data_batch' = << >>
          /\ current_ride_id' = PyNone
          /\ CSV_FILENAME' = IF current_ride_id # PyNone
                             THEN "warnings.csv" ELSE CSV_FILENAME
  /\ UNCHANGED << auth_vars, carry_vars, lock_vars, main_vars, mpu_vars, limit_vars, detect_vars, ctor_vars, stop_vars, clock_vars, speed_vars, bridge_vars, rd_ride_id, rd_batch,
                  warning_files, current_is_active, control_poll_queue,
                  csv_write_queue, batch_buffer, shm_writer, pc, ride_id,
                  sample_count, rides_started, cp_pc, cp_result, cp_failed,
                  writers, csv_files, flag_array, data_array, ride_log,
                  flag_seen_true >>

\* open(name, 'w') followed by writeheader().
CreateWithHeader(files, name) == [files EXCEPT ![name] = << "header" >>]

\* Lines 568-586: get_ride_id() returns an int; when it differs from
\* current_ride_id the ride is taken as new: current_ride_id becomes
\* str(ride_id) and warnings_{ride_id}.csv is opened in write mode.
ReaderRideId ==
  /\ rd_pc = "ride_id"
  /\ rd_pc' = "read"
  /\ LET ride == PyInt(flag_array[2])
     IN /\ rd_ride_id' = ride
        /\ IF PyNe(current_ride_id, ride)
           THEN /\ current_ride_id' = str(ride)
                /\ CSV_FILENAME' = warnings_csv(ride[2])
                /\ warning_files' =
                     CreateWithHeader(warning_files, warnings_csv(ride[2]))
           ELSE UNCHANGED << current_ride_id, CSV_FILENAME, warning_files >>
  /\ UNCHANGED << auth_vars, carry_vars, lock_vars, main_vars, mpu_vars, limit_vars, detect_vars, ctor_vars, stop_vars, clock_vars, speed_vars, bridge_vars, rd_batch, current_data_batch,
                  current_is_active, control_poll_queue, csv_write_queue,
                  batch_buffer, shm_writer, pc, ride_id, sample_count,
                  rides_started, cp_pc, cp_result, cp_failed, writers,
                  csv_files, flag_array, data_array, ride_log,
                  flag_seen_true >>

\* Lines 589-608: read_batch_as_dict() copies the slot; the rows become a
\* list of 104 SensorData.
ReaderRead ==
  /\ rd_pc = "read"
  /\ rd_pc' = "publish"
  /\ rd_batch' = [i \in 1..BATCH_SIZE |-> data_array[i]]
  /\ UNCHANGED << auth_vars, carry_vars, lock_vars, main_vars, mpu_vars, limit_vars, detect_vars, ctor_vars, stop_vars, clock_vars, speed_vars, bridge_vars, rd_ride_id, current_ride_id,
                  CSV_FILENAME, current_data_batch, warning_files,
                  current_is_active, control_poll_queue, csv_write_queue,
                  batch_buffer, shm_writer, pc, ride_id, sample_count,
                  rides_started, cp_pc, cp_result, cp_failed, writers,
                  csv_files, flag_array, data_array, ride_log,
                  flag_seen_true >>

\* Lines 611-624: publish the batch to the detectors.
ReaderPublish ==
  /\ rd_pc = "publish"
  /\ rd_pc' = "check"
  /\ current_data_batch' = rd_batch
  /\ rd_batch' = << >>
  /\ UNCHANGED << auth_vars, carry_vars, lock_vars, main_vars, mpu_vars, limit_vars, detect_vars, ctor_vars, stop_vars, clock_vars, speed_vars, bridge_vars, rd_ride_id, current_ride_id,
                  CSV_FILENAME, warning_files, current_is_active,
                  control_poll_queue, csv_write_queue, batch_buffer,
                  shm_writer, pc, ride_id, sample_count, rides_started,
                  cp_pc, cp_result, cp_failed, writers, csv_files,
                  flag_array, data_array, ride_log, flag_seen_true >>

\* write_batch_to_csv: append the 104 rows of the batch to CSV_FILENAME,
\* after the header when the file does not exist.
\* Every row carries the same label and the same warning list; first is
\* the first row of the batch.
write_batch_to_csv(files, name, batch, lstm_prediction, warnings) ==
  IF Len(batch) # BATCH_SIZE THEN files
  ELSE [files EXCEPT ![name] =
          (IF files[name] = << >> THEN << "header" >> ELSE files[name])
            \o << [rows |-> BATCH_SIZE, first |-> batch[1],
                   lstm_prediction |-> lstm_prediction,
                   warnings |-> warnings] >>]

\* main(), lines 812-823: once a batch is published, append it.
ConsumerMainWrite ==
  /\ shm_writer
  /\ Len(current_data_batch) >= BATCH_SIZE
  /\ Len(warning_files[CSV_FILENAME]) <= MaxWarningBatches
  /\ warning_files' =
       write_batch_to_csv(warning_files, CSV_FILENAME, current_data_batch,
                          lstm_last_prediction, warning_state)
  /\ UNCHANGED << auth_vars, carry_vars, lock_vars, main_vars, mpu_vars, limit_vars, detect_vars, ctor_vars, stop_vars, clock_vars, speed_vars, bridge_vars, rd_pc, rd_ride_id, rd_batch,
                  current_ride_id, CSV_FILENAME, current_data_batch,
                  current_is_active, control_poll_queue, csv_write_queue,
                  batch_buffer, shm_writer, pc, ride_id, sample_count,
                  rides_started, cp_pc, cp_result, cp_failed, writers,
                  csv_files, flag_array, data_array, ride_log,
                  flag_seen_true >>

\* main() step by step.  Lines 812-820: when a full batch is published,
\* copy it (get_current_data_batch); otherwise sleep and look again.
MainSnapshot ==
  /\ shm_writer
  /\ main_pc = "check"
  /\ Len(current_data_batch) >= BATCH_SIZE
  /\ main_pc' = "write"
  /\ current_batch' = current_data_batch
  /\ snapshot_csv' = CSV_FILENAME
  /\ snapshot_active' = (flag_array[1] # 0)
  /\ UNCHANGED << auth_vars, carry_vars, lock_vars, sampler_vars, consumer_vars, mpu_vars, limit_vars,
                  detect_vars, ctor_vars, stop_vars, clock_vars, speed_vars,
                  bridge_vars >>

\* Lines 821-825: get_warnings(), get_lstm_prediction() and
\* write_batch_to_csv, which appends to the file CSV_FILENAME names when it
\* is called; then the sleep of one second.
MainWrite(limit) ==
  /\ main_pc = "write"
  /\ Len(warning_files[CSV_FILENAME]) <= limit
  /\ main_pc' = "check"
  /\ current_batch' = << >>
  /\ UNCHANGED << snapshot_csv, snapshot_active >>
  /\ warning_files' =
       write_batch_to_csv(warning_files, CSV_FILENAME, current_batch,
                          lstm_last_prediction, warning_state)
  /\ UNCHANGED << auth_vars, carry_vars, lock_vars, sampler_vars, mpu_vars, limit_vars, detect_vars, ctor_vars,
                  stop_vars, clock_vars, speed_vars, bridge_vars, rd_pc,
                  rd_ride_id, rd_batch, current_ride_id, CSV_FILENAME,
                  current_data_batch >>

\* The sampler and the consumer side by side.  The shared-memory writer
\* was created; the backend lists no ride, so every ride gets the id "0".
InitConsumer == InitRide /\ shm_writer /\ gps_serial

NextConsumer ==
  \/ \E a \in Answers : ControlPollRequest(a[1], a[2], a[3])
  \/ ControlPollAssign
  \/ WaitLoop
  \/ \E r \in {"0"} : WaitGetRideId(r)
  \/ WaitRecheck
  \/ \E a \in Answers : WaitPoll(a[1], a[2], a[3])
  \/ StartRide(MaxConsumerRides)
  \/ Tick(MaxSamples)
  \/ SetInactive
  \/ \E t \in BOOLEAN : DrainQueue(t)
  \/ ConsumerWait
  \/ Upload
  \/ ReaderCheck
  \/ ReaderRideId
  \/ ReaderRead
  \/ ReaderPublish
  \/ ConsumerMainWrite

SpecConsumer == InitConsumer /\ [][NextConsumer]_vars

\* One ride of the sampler, of two batches and one sample more, beside the
\* reader thread and main() of the consumer taken step by step.  The ride
\* goes on: control_poll_thread, the one that ends it, is left out.
InitWarn == InitRide /\ shm_writer /\ gps_serial

NextWarn ==
  \/ WaitLoop
  \/ \E r \in {"0"} : WaitGetRideId(r)
  \/ WaitRecheck
  \/ \E a \in Answers : WaitPoll(a[1], a[2], a[3])
  \/ StartRide(MaxWarnRides)
  \/ Tick(MaxWarnSamples)
  \/ ReaderCheck
  \/ ReaderRideId
  \/ ReaderRead
  \/ ReaderPublish
  \/ MainSnapshot
  \/ MainWrite(MaxMainWrites)

SpecWarn == InitWarn /\ [][NextWarn]_vars

\* Rides that end, beside the reader thread and main() of the consumer
\* taken step by step.  As under SpecConsumer the sampler writes no batch
\* of its own, and the reader publishes the slot as it finds it.
InitRideEnd == InitRide /\ shm_writer /\ gps_serial

NextRideEnd ==
  \/ \E a \in Answers : ControlPollRequest(a[1], a[2], a[3])
  \/ ControlPollAssign
  \/ WaitLoop
  \/ \E r \in {"0"} : WaitGetRideId(r)
  \/ WaitRecheck
  \/ \E a \in Answers : WaitPoll(a[1], a[2], a[3])
  \/ StartRide(MaxConsumerRides)
  \/ Tick(MaxSamples)
  \/ SetInactive
  \/ \E t \in BOOLEAN : DrainQueue(t)
  \/ ConsumerWait
  \/ Upload
  \/ ReaderCheck
  \/ ReaderRideId
  \/ ReaderRead
  \/ ReaderPublish
  \/ MainSnapshot
  \/ MainWrite(MaxWarningBatches)

SpecRideEnd == InitRideEnd /\ [][NextRideEnd]_vars

\* -------------------------------------------------- the speed estimator
Abs(x) == IF x < 0 THEN 0 - x ELSE x
Min(a, b) == IF a < b THEN a ELSE b
Max(a, b) == IF a < b THEN b ELSE a

\* Lines 93-104: the bias-corrected acceleration behind the deadband, in
\* 1e-8 m/s^2.
accel_corrected_ms2NoDeadband(accel_ms2) ==
  ((accel_ms2 \div G_TO_MS2) - OPTIMAL_BIAS) * G_TO_MS2

accel_corrected_ms2(accel_ms2) ==
  LET accel_g == accel_ms2 \div G_TO_MS2
      accel_corrected_g == accel_g - OPTIMAL_BIAS
  IN (IF Abs(accel_corrected_g) < DEADBAND_G THEN 0 ELSE accel_corrected_g)
       * G_TO_MS2

\* calculate_speed_from_accel at time now: the integrator (v, ts) after the
\* call; v is also the value returned.  The first call only sets the time
\* anchor.  There is an upper clamp and no lower one (lines 110-118).
\* 1e-8 m/s^2 times one tick of 1e-2 s is 1e-10 m/s, that is 1e-6 of the
\* unit of v.
calculate_speed_from_accel(v, ts, accel_ms2, now) ==
  IF ts = PyNone THEN [v |-> v, ts |-> PyFloat(now)]
  ELSE LET dt == Max(0, now - ts[2])
           v1 == v + (accel_corrected_ms2(accel_ms2) \div 1000000) * dt
       IN [v |-> IF v1 > SPEED_CAP_MS THEN SPEED_CAP_MS ELSE v1,
           ts |-> PyFloat(now)]

\* What mpu_utils.get_mpu_data() reports on the x axis, in micro-g (None
\* when the read failed), and the time one iteration of mpu_thread takes:
\* a tick, or 100 s when the reads before this one failed for that long.
AccReadings == {PyNone, PyFloat(-882412), PyFloat(127588), PyFloat(1117588)}
MpuElapsed == {1, 10000}

\* mpu_thread, lines 125-146: publish the reading and integrate.
MpuRead(acc, elapsed) ==
  /\ Alive
  /\ mpu_reads < MaxMpuReads
  /\ mpu_reads' = mpu_reads + 1
  /\ perf_counter' = perf_counter + elapsed
  /\ latest_mpu' = acc
  /\ mpu_read_ok' = (mpu_read_ok \/ acc # PyNone)
  /\ IF acc = PyNone
     THEN UNCHANGED << last_accel_ms2, current_speed_ms, last_speed_calc_ts >>
     ELSE LET a == acc[2] * G_TO_MS2
              r == calculate_speed_from_accel(current_speed_ms,
                     last_speed_calc_ts, a, perf_counter')
          IN /\ last_accel_ms2' = a
             /\ current_speed_ms' = r.v
             /\ last_speed_calc_ts' = r.ts
  /\ UNCHANGED << auth_vars, carry_vars, lock_vars, main_vars, limit_vars, detect_vars, ctor_vars, stop_vars, clock_vars, consumer_vars, bridge_vars, latest_gps,
                  latest_speed_source, gps_locals, main_locals,
                  gps_last_update_time, gps_serial, gps_iterations,
                  current_is_active, control_poll_queue, csv_write_queue,
                  batch_buffer, shm_writer, pc, ride_id, sample_count,
                  rides_started, cp_pc, cp_result, cp_failed, writers,
                  csv_files, flag_array, data_array, ride_log,
                  flag_seen_true >>

\* Lines 183-185: one pass of the fallback loop, a call of
\* calculate_speed_from_accel and a sleep of one tick; sum adds up the
\* values returned.
FallbackStep(st) ==
  LET r == calculate_speed_from_accel(st.v, st.ts, st.accel_ms2, st.now)
  IN [st EXCEPT !.v = r.v, !.ts = r.ts, !.now = st.now + 1,
                !.sum = st.sum + r.v]

\* n >= 1 passes in a row: the first half of them lead from st to mid, the
\* others from mid to the result.
RECURSIVE FallbackSteps(_, _)
FallbackSteps(st, n) ==
  IF n = 1 THEN FallbackStep(st)
  ELSE CHOOSE out \in {FallbackSteps(mid, n - (n \div 2)) :
                         mid \in {FallbackSteps(st, n \div 2)}} : TRUE

\* Lines 181-189: the loop of FALLBACK_SAMPLES passes.  While it runs,
\* mpu_thread integrates the same reading over the same time in smaller
\* steps, which gives the same speed at the loop's own calls.
FallbackLoop(v, ts, accel_ms2, now) ==
  FallbackSteps([v |-> v, ts |-> ts, accel_ms2 |-> accel_ms2, now |-> now,
                 sum |-> 0], FALLBACK_SAMPLES)

\* avg_speed_ms * 3.6, in 0.01 km/h.
FallbackSpeedKmh(sum) == ((sum \div FALLBACK_SAMPLES) * 36) \div 1000

\* What gps_utils.get_gps_data() returns: (None, None, None), or a position
\* with a speed in 0.01 km/h (0, 40, 300 and 400 km/h).
GpsReadings == {PyNone, PyFloat(0), PyFloat(4000), PyFloat(30000),
                PyFloat(40000)}

\* gps_thread, lines 161-244, one iteration.  gps_thread declares neither
\* current_speed_ms nor last_speed_calc_ts global, so lines 174-175 assign
\* two locals of gps_thread.
GpsIteration(gps_speed) ==
  /\ Alive
  /\ gps_serial
  /\ gps_iterations < MaxGpsIterations
  /\ gps_iterations' = gps_iterations + 1
  /\ IF gps_speed # PyNone /\ GPS_SPEED_MIN < gps_speed[2]
          /\ gps_speed[2] <= GPS_SPEED_MAX
     THEN /\ gps_locals' =
               [current_speed_ms |->
                  PyFloat(Max(0, Min(SPEED_CAP_MS, (gps_speed[2] * 250) \div 9))),
                last_speed_calc_ts |-> PyFloat(perf_counter)]
          /\ latest_gps' = [fix |-> TRUE, spd |-> gps_speed]
          /\ latest_speed_source' = "GPS"
          /\ gps_last_update_time' = perf_counter
          /\ perf_counter' = perf_counter + 100
          /\ UNCHANGED << current_speed_ms, last_speed_calc_ts >>
     ELSE LET r == FallbackLoop(current_speed_ms, last_speed_calc_ts,
                                last_accel_ms2, perf_counter)
          IN /\ current_speed_ms' = r.v
             /\ last_speed_calc_ts' = r.ts
             /\ latest_gps' = [fix |-> gps_speed # PyNone,
                               spd |-> PyFloat(FallbackSpeedKmh(r.sum))]
             /\ latest_speed_source' = "ACCEL"
             /\ gps_last_update_time' = r.now
             /\ perf_counter' = r.now + 100
             /\ UNCHANGED gps_locals
  /\ UNCHANGED << auth_vars, carry_vars, lock_vars, main_vars, mpu_vars, limit_vars, detect_vars, ctor_vars, stop_vars, clock_vars, consumer_vars, bridge_vars, last_accel_ms2, mpu_reads,
                  main_locals, gps_serial,
                  current_is_active, control_poll_queue, csv_write_queue,
                  batch_buffer, shm_writer, pc, ride_id, sample_count,
                  rides_started, cp_pc, cp_result, cp_failed, writers,
                  csv_files, flag_array, data_array, ride_log,
                  flag_seen_true >>

\* The sampler of one ride with the IMU and GNSS threads; gps_thread runs
\* when the GNSS device was found at startup (lines 458-476).
InitSpeed == InitRide /\ shm_writer

NextSpeed ==
  \/ WaitLoop
  \/ \E r \in {"0"} : WaitGetRideId(r)
  \/ WaitRecheck
  \/ \E a \in Answers : WaitPoll(a[1], a[2], a[3])
  \/ StartRide(MaxSpeedRides)
  \/ Tick(MaxSpeedSamples)
  \/ \E acc \in AccReadings, elapsed \in MpuElapsed : MpuRead(acc, elapsed)
  \/ \E gps_speed \in GpsReadings : GpsIteration(gps_speed)

SpecSpeed == InitSpeed /\ [][NextSpeed]_vars

\* ------------------------------------------------- the sampler's clock
\* How long the sampler runs between two readings of the clock, sleep
\* excluded, in units of 0.1 ms: 0.2 ms for the code of one iteration, or
\* 30 ms when the thread was held up.
RunTimes == {2, 300}

\* The sampler and the control-poll thread, with the wall clock.
InitClock == InitRide /\ shm_writer /\ gps_serial

NextClock ==
  \/ \E a \in Answers : ControlPollRequest(a[1], a[2], a[3])
  \/ ControlPollAssign
  \/ SetInactive
  \/ \E t \in BOOLEAN : DrainQueue(t)
  \/ ConsumerWait
  \/ Upload
  \/ WaitLoop
  \/ \E r \in {"0"} : WaitGetRideId(r)
  \/ WaitRecheck
  \/ \E a \in Answers : WaitPoll(a[1], a[2], a[3])
  \/ StartRide(MaxClockRides)
  \/ \E run \in RunTimes : TimedSample(MaxClockSamples, run)

SpecClock == InitClock /\ [][NextClock]_vars

\* ------------------------------------------- SensorDataWriter.__init__
\* What the system may hold under the two names when main2.py boots:
\* nothing, or a region left by an earlier run (its data zero or the last
\* batch written, its flag word as the run left it).
StaleData == {"absent", "zero", "stale"}
StaleFlag == {"absent", <<0, 0>>, <<1, 0>>, <<1, 1>>}

\* Lines 53-58: __init__ starts with no handles.
NoHandles == [shm |-> FALSE, flag_shm |-> FALSE]

\* Lines 62-66: SharedMemory(name=SHARED_MEMORY_NAME, create=True) makes a
\* zero-filled region, or raises FileExistsError, which lines 108-111
\* handle.
CtorCreateData ==
  /\ ctor_pc = "create_data"
  /\ IF regions.data = "absent"
     THEN /\ regions' = [regions EXCEPT !.data = "zero"]
          /\ self_shm' = [self_shm EXCEPT !.shm = TRUE]
          /\ ctor_pc' = "create_flag"
     ELSE /\ ctor_pc' = "cleanup"
          /\ UNCHANGED << regions, self_shm >>
  /\ UNCHANGED << auth_vars, carry_vars, lock_vars, main_vars, mpu_vars, limit_vars, detect_vars, ctor_depth, stale_at_boot, stop_vars, clock_vars,
                  speed_vars, consumer_vars,
                  bridge_vars, current_is_active, control_poll_queue,
                  csv_write_queue, batch_buffer, shm_writer, pc, ride_id,
                  sample_count, rides_started, cp_pc, cp_result, cp_failed,
                  writers, csv_files, flag_array, ride_log, data_array,
                  flag_seen_true >>

\* Lines 68-72: the same for RIDE_FLAG_MEMORY_NAME.
CtorCreateFlag ==
  /\ ctor_pc = "create_flag"
  /\ IF regions.flag = "absent"
     THEN /\ regions' = [regions EXCEPT !.flag = <<0, 0>>]
          /\ self_shm' = [self_shm EXCEPT !.flag_shm = TRUE]
          /\ ctor_pc' = "fill"
     ELSE /\ ctor_pc' = "cleanup"
          /\ UNCHANGED << regions, self_shm >>
  /\ UNCHANGED << auth_vars, carry_vars, lock_vars, main_vars, mpu_vars, limit_vars, detect_vars, ctor_depth, stale_at_boot, stop_vars, clock_vars,
                  speed_vars, consumer_vars,
                  bridge_vars, current_is_active, control_poll_queue,
                  csv_write_queue, batch_buffer, shm_writer, pc, ride_id,
                  sample_count, rides_started, cp_pc, cp_result, cp_failed,
                  writers, csv_files, flag_array, ride_log, data_array,
                  flag_seen_true >>

\* Lines 85-104: the array views, data_array.fill(0.0) and the flag word
\* (0, 0).
CtorFill ==
  /\ ctor_pc = "fill"
  /\ regions' = [data |-> "zero", flag |-> <<0, 0>>]
  /\ ctor_pc' = "done"
  /\ UNCHANGED << auth_vars, carry_vars, lock_vars, main_vars, mpu_vars, limit_vars, detect_vars, ctor_depth, self_shm, stale_at_boot, stop_vars, clock_vars,
                  speed_vars, consumer_vars,
                  bridge_vars, current_is_active, control_poll_queue,
                  csv_write_queue, batch_buffer, shm_writer, pc, ride_id,
                  sample_count, rides_started, cp_pc, cp_result, cp_failed,
                  writers, csv_files, flag_array, ride_log, data_array,
                  flag_seen_true >>

\* cleanup(), lines 196-213: close and unlink the regions self holds a
\* handle of; a name whose creation failed has no handle and stays.
cleanup(regs, handles) ==
  [data |-> IF handles.shm THEN "absent" ELSE regs.data,
   flag |-> IF handles.flag_shm THEN "absent" ELSE regs.flag]

\* Lines 108-111: the handler of FileExistsError calls cleanup() and then
\* __init__ again, which starts without handles; the interpreter ends the
\* nesting with a RecursionError, which leaves the constructor.
CtorCleanup ==
  /\ ctor_pc = "cleanup"
  /\ regions' = cleanup(regions, self_shm)
  /\ IF ctor_depth < MaxCtorDepth
     THEN /\ ctor_depth' = ctor_depth + 1
          /\ self_shm' = NoHandles
          /\ ctor_pc' = "create_data"
     ELSE /\ ctor_pc' = "raised"
          /\ UNCHANGED << ctor_depth, self_shm >>
  /\ UNCHANGED << auth_vars, carry_vars, lock_vars, main_vars, mpu_vars, limit_vars, detect_vars, stale_at_boot, stop_vars, clock_vars,
                  speed_vars, consumer_vars,
                  bridge_vars, current_is_active, control_poll_queue,
                  csv_write_queue, batch_buffer, shm_writer, pc, ride_id,
                  sample_count, rides_started, cp_pc, cp_result, cp_failed,
                  writers, csv_files, flag_array, ride_log, data_array,
                  flag_seen_true >>

\* main2.py lines 439-445: shm_writer is the writer, or None when the
\* constructor raised.
AssignWriter ==
  /\ ctor_pc \in {"done", "raised"}
  /\ shm_writer' = (ctor_pc = "done")
  /\ ctor_pc' = IF ctor_pc = "done" THEN "returned" ELSE "failed"
  /\ UNCHANGED << auth_vars, carry_vars, lock_vars, main_vars, mpu_vars, limit_vars, detect_vars, regions, ctor_depth, self_shm, stale_at_boot, stop_vars,
                  clock_vars, speed_vars, consumer_vars,
                  bridge_vars, current_is_active, control_poll_queue,
                  csv_write_queue, batch_buffer, pc, ride_id,
                  sample_count, rides_started, cp_pc, cp_result, cp_failed,
                  writers, csv_files, flag_array, ride_log, data_array,
                  flag_seen_true >>

\* main2.py at line 440, on a system that holds any of the stale regions.
InitCreate ==
  /\ regions \in [data : StaleData, flag : StaleFlag]
  /\ ctor_pc = "create_data"
  /\ ctor_depth = 0
  /\ self_shm = NoHandles
  /\ stale_at_boot = (regions.data # "absent" \/ regions.flag # "absent")
  /\ InitGlobals("main2.py")
  /\ ModelLoaded
  /\ ~shm_writer
  /\ gps_serial

NextCreate ==
  \/ CtorCreateData
  \/ CtorCreateFlag
  \/ CtorFill
  \/ CtorCleanup
  \/ AssignWriter

SpecCreate == InitCreate /\ [][NextCreate]_vars

\* --------------------------------------------------- speed_limit_thread
\* What speed_limit_utils.get_speed_limit returns, lines 10-25: the first
\* speedLimit of the answer, or None after an HTTP status other than 200,
\* an exception or an answer without speed limits.
SpeedLimits == {PyNone, PyInt(50), PyInt(60)}

\* time.sleep(0.2) and the time of the HTTP call, in units of 0.1 ms: the
\* sleep alone, or a pause that ends 25 s or 50 s after the last reading
\* of the clock.
LimitPauses == {2000, 250000, 500000}

\* Line 259: (latest_speed_limit is None) or
\* (now - last_speed_limit_fetch >= SPEED_LIMIT_REFRESH_S).
FetchDue(limit, last_fetch, now) ==
  \/ limit = PyNone
  \/ last_fetch = LongAgo
  \/ now - last_fetch[2] >= SPEED_LIMIT_REFRESH_S

\* speed_limit_thread, lines 252-268, one iteration: with a position and a
\* lookup due, call get_speed_limit and store what it returns and the time
\* read before the call; then sleep.
SpeedLimitIteration(sl, pause) ==
  /\ Alive
  /\ limit_iterations < MaxLimitIterations
  /\ limit_iterations' = limit_iterations + 1
  /\ IF latest_gps.fix
        /\ FetchDue(latest_speed_limit, last_speed_limit_fetch, time_time)
     THEN /\ latest_speed_limit' = sl
          /\ last_speed_limit_fetch' = PyFloat(time_time)
     ELSE UNCHANGED << latest_speed_limit, last_speed_limit_fetch >>
  /\ time_time' = time_time + pause
  /\ UNCHANGED << auth_vars, carry_vars, lock_vars, main_vars, mpu_vars, timestamp_ms, next_sample_time, detect_vars, sampler_vars,
                  ctor_vars, stop_vars, speed_vars, consumer_vars,
                  bridge_vars >>

\* main2.py with its GNSS and speed-limit threads, no ride running.
InitLimit == InitRide /\ shm_writer /\ gps_serial

NextLimit ==
  \/ \E gps_speed \in GpsReadings : GpsIteration(gps_speed)
  \/ \E sl \in SpeedLimits, pause \in LimitPauses :
        SpeedLimitIteration(sl, pause)

SpecLimit == InitLimit /\ [][NextLimit]_vars

\* --------------------------------------- Warning_Generate.py: detectors
\* A row of the published batch as the detectors see it: timestamp (the
\* sampler's timestamp_ms / 1000.0, seconds) in ticks of 10 ms,
\* accelerations in 0.1 m/s^2, angular_z in 0.1 rad/s, speed and
\* speed_limit in km/h.
SensorData(t, ax, az, gz, spd, lim) ==
  [timestamp |-> t, accel_x |-> ax, accel_z |-> az, angular_z |-> gz,
   speed |-> spd, speed_limit |-> lim]

\* Lines 203-206 and 262, in the units of the rows.
SPEEDY_TURN_THRESHOLD == 5
HARSH_BRAKE_THRESHOLD == 0 - 40
SUDDEN_ACCEL_THRESHOLD == 35
POTHOLE_Z_THRESHOLD == 25
BUMP_CONFIDENCE_THRESHOLD == 60
\* Lines 391 and 421: the speed above which a turn counts, and gravity.
SpeedyTurnMinSpeed == 20
GravityZ == 98
\* The ticks of a second.  A jerk of the code is m/s^2 per second of
\* timestamp: da units of acceleration in dt ticks are a jerk of
\* (da / 10) / (dt / TicksPerSecond).
TicksPerSecond == 100

\* Line 261.
CLASS_NAMES == << "BUMP", "LEFT", "RIGHT", "STOP", "STRAIGHT" >>

RECURSIVE SumSeq(_, _, _)
SumSeq(s, lo, hi) ==
  IF lo > hi THEN 0
  ELSE IF lo = hi THEN s[lo]
  ELSE LET mid == (lo + hi) \div 2
           left == SumSeq(s, lo, mid)
           right == SumSeq(s, mid + 1, hi)
       IN left + right

\* Line 343: np.any(speed > speed_limit).
overspeeding(batch) ==
  \E i \in 1..Len(batch) : batch[i].speed > batch[i].speed_limit

\* Line 421: np.any(np.abs(z_accel - 9.8) > POTHOLE_Z_THRESHOLD).
pothole_detected(batch) ==
  \E i \in 1..Len(batch) :
     Abs(batch[i].accel_z - GravityZ) > POTHOLE_Z_THRESHOLD

\* Lines 387-392, without the gate of line 379: this is the body a
\* detector would run if it did not ask for the label.
speedy_turnUngated(latest_prediction, batch) ==
  \E i \in 1..Len(batch) :
     /\ Abs(batch[i].angular_z) > SPEEDY_TURN_THRESHOLD
     /\ batch[i].speed > SpeedyTurnMinSpeed

\* Lines 379-392: only under the label LEFT or RIGHT,
\* np.any((|angular_z| > SPEEDY_TURN_THRESHOLD) & (speed > 20)).
speedy_turn(latest_prediction, batch) ==
  /\ latest_prediction \in {"LEFT", "RIGHT"}
  /\ \E i \in 1..Len(batch) :
        /\ Abs(batch[i].angular_z) > SPEEDY_TURN_THRESHOLD
        /\ batch[i].speed > SpeedyTurnMinSpeed

\* np.diff of a column.
time_diffs(batch) ==
  [i \in 1..(Len(batch) - 1) |-> batch[i + 1].timestamp - batch[i].timestamp]
accel_diffs(batch) ==
  [i \in 1..(Len(batch) - 1) |-> batch[i + 1].accel_x - batch[i].accel_x]

\* accel_diffs / time_diffs of numpy compared with a threshold c (in 0.1):
\* x / 0 is -inf, nan or +inf and raises nothing.
JerkBelow(da, dt, c) ==
  \/ dt > 0 /\ da * TicksPerSecond < c * dt
  \/ dt < 0 /\ da * TicksPerSecond > c * dt
  \/ dt = 0 /\ da < 0
JerkAbove(da, dt, c) ==
  \/ dt > 0 /\ da * TicksPerSecond > c * dt
  \/ dt < 0 /\ da * TicksPerSecond < c * dt
  \/ dt = 0 /\ da > 0
JerkIsNan(da, dt) == dt = 0 /\ da = 0

\* Lines 451-456 and 491-503: the test under which harsh_braking_thread
\* and sudden_acceleration_thread look at the batch at all.
TimeAdvances(batch) ==
  /\ Len(batch) > 1
  /\ batch[Len(batch)].timestamp - batch[1].timestamp > 0

\* Lines 457-464: min_jerk < HARSH_BRAKE_THRESHOLD or
\* avg_jerk < HARSH_BRAKE_THRESHOLD / 2.  np.min and np.mean of an array
\* with a nan are nan, and a comparison with nan is False.  The mean is
\* taken here for equal time steps, which every batch of the model has.
harsh_braking(batch) ==
  LET dt == time_diffs(batch)
      da == accel_diffs(batch)
      n == Len(batch) - 1
      nan == \E i \in 1..n : JerkIsNan(da[i], dt[i])
      min_jerk == \E i \in 1..n : JerkBelow(da[i], dt[i], HARSH_BRAKE_THRESHOLD)
      avg_jerk == /\ \A i \in 1..n : dt[i] = dt[1]
                  /\ JerkBelow(2 * SumSeq(da, 1, n), dt[1] * n,
                               HARSH_BRAKE_THRESHOLD)
  IN ~nan /\ (min_jerk \/ avg_jerk)

\* Lines 493-507: slope of the least-squares line of accel_x over
\* timestamps - timestamps[0], if the times are not all equal, or the
\* largest jerk, against SUDDEN_ACCEL_THRESHOLD and twice it.
sudden_acceleration(batch) ==
  LET n == Len(batch)
      t == [i \in 1..n |-> batch[i].timestamp - batch[1].timestamp]
      a == [i \in 1..n |-> batch[i].accel_x]
      ta == [i \in 1..n |-> t[i] * a[i]]
      tt == [i \in 1..n |-> t[i] * t[i]]
      st == SumSeq(t, 1, n)
      S_ta == n * SumSeq(ta, 1, n) - st * SumSeq(a, 1, n)
      S_tt == n * SumSeq(tt, 1, n) - st * st
      dt == time_diffs(batch)
      da == accel_diffs(batch)
      nan == \E i \in 1..(n - 1) : JerkIsNan(da[i], dt[i])
      \* slope = S_ta / S_tt, in 0.1 m/s^2 per tick
      slope == S_ta * TicksPerSecond > SUDDEN_ACCEL_THRESHOLD * S_tt
      max_instant_slope ==
        /\ ~nan
        /\ \E i \in 1..(n - 1) :
              JerkAbove(da[i], dt[i], 2 * SUDDEN_ACCEL_THRESHOLD)
  IN slope \/ max_instant_slope

\* The np.std(time_normalized) > 0 test of line 496.
TimesDiffer(batch) ==
  \E i \in 1..Len(batch) : batch[i].timestamp # batch[1].timestamp

\* update_warning(index, value), lines 209-212.
\* An update that rebuilt the list from its initial value instead of
\* assigning one element under the lock.
update_warningRebuilt(state, index, value) ==
  [j \in 0..5 |-> IF j = index THEN value ELSE 0]
update_warning(state, index, value) == [state EXCEPT ![index] = value]

Bit(b) == IF b THEN 1 ELSE 0

\* One iteration of a rule detector that found a full batch: it calls
\* update_warning(index, value), or nothing when wrote is false.
DetectorIteration(index, wrote, value) ==
  /\ Len(current_data_batch) >= BATCH_SIZE
  /\ IF wrote
     THEN /\ warning_state' = update_warning(warning_state, index, value)
          /\ last_update' = << index, value >>
     ELSE /\ last_update' = << index >>
          /\ UNCHANGED warning_state
  /\ UNCHANGED << auth_vars, carry_vars, lock_vars, main_vars, mpu_vars, limit_vars, lstm_last_prediction, lstm_model, sampler_vars, ctor_vars,
                  stop_vars, clock_vars, speed_vars, consumer_vars,
                  bridge_vars >>

\* overspeeding_thread, lines 333-350.
OverspeedingIteration ==
  DetectorIteration(0, TRUE, Bit(overspeeding(current_data_batch)))

\* pothole_detection_thread, lines 408-428.
PotholeIteration ==
  DetectorIteration(2, TRUE, Bit(pothole_detected(current_data_batch)))

\* speedy_turns_thread, lines 368-399.
SpeedyTurnsIteration ==
  DetectorIteration(3, TRUE,
                    Bit(speedy_turn(lstm_last_prediction, current_data_batch)))

\* harsh_braking_thread, lines 437-469.
HarshBrakingIteration ==
  DetectorIteration(4, TimeAdvances(current_data_batch),
                    Bit(harsh_braking(current_data_batch)))

\* sudden_acceleration_thread, lines 478-512.
SuddenAccelerationIteration ==
  DetectorIteration(5, /\ TimesDiffer(current_data_batch)
                       /\ TimeAdvances(current_data_batch),
                    Bit(sudden_acceleration(current_data_batch)))

\* The classifier's iteration if line 271 did not ask for the model.
LstmIterationAnyModel(pred_class_idx, confidence) ==
  /\ Len(current_data_batch) >= BATCH_SIZE
  /\ lstm_last_prediction' = CLASS_NAMES[pred_class_idx + 1]
  /\ LET value == Bit(pred_class_idx = 0
                      /\ confidence >= BUMP_CONFIDENCE_THRESHOLD)
     IN /\ warning_state' = update_warning(warning_state, 1, value)
        /\ last_update' = << 1, value >>
  /\ UNCHANGED << auth_vars, carry_vars, lock_vars, main_vars, mpu_vars, limit_vars, lstm_model, sampler_vars, ctor_vars, stop_vars, clock_vars,
                  speed_vars, consumer_vars, bridge_vars >>

\* lstm_prediction_thread, lines 264-318: with a full batch and a model,
\* predict() gives a class index and its confidence (in percent); the
\* label is published and slot 1 is written.
LstmIteration(pred_class_idx, confidence) ==
  /\ Len(current_data_batch) >= BATCH_SIZE
  /\ lstm_model # "None"
  /\ lstm_last_prediction' = CLASS_NAMES[pred_class_idx + 1]
  /\ LET value == Bit(pred_class_idx = 0
                      /\ confidence >= BUMP_CONFIDENCE_THRESHOLD)
     IN /\ warning_state' = update_warning(warning_state, 1, value)
        /\ last_update' = << 1, value >>
  /\ UNCHANGED << auth_vars, carry_vars, lock_vars, main_vars, mpu_vars, limit_vars, lstm_model, sampler_vars, ctor_vars, stop_vars, clock_vars,
                  speed_vars, consumer_vars, bridge_vars >>

\* Lines 267-273: the classifier's iteration without a full batch or
\* without a model sleeps and writes nothing.
LstmSkip ==
  /\ Len(current_data_batch) < BATCH_SIZE \/ lstm_model = "None"
  /\ last_update' = << 1 >>
  /\ UNCHANGED << auth_vars, carry_vars, lock_vars, main_vars, mpu_vars, limit_vars, warning_state, lstm_last_prediction, lstm_model,
                  sampler_vars, ctor_vars, stop_vars, clock_vars,
                  speed_vars, consumer_vars, bridge_vars >>

\* The batches the reader may publish.  Rows 1..104 one tick apart, all
\* equal to base but the row at OddRow; and the zero-filled slot that
\* SensorDataWriter.__init__ leaves.
OddRow == 52
CalmRow == SensorData(0, 0, GravityZ, 0, 10, 50)
TurnRow == SensorData(0, 0, GravityZ, 8, 60, 50)
BaseRows == {CalmRow, TurnRow}
OddRows ==
  {CalmRow, TurnRow,
   SensorData(0, 0, 130, 0, 10, 50),          \* a vertical spike
   SensorData(0, 10, GravityZ, 0, 10, 50),    \* a forward jolt
   SensorData(0, 0, GravityZ, 0, 60, 50),     \* fast and straight
   SensorData(0, 0, GravityZ, 0 - 8, 10, 50)} \* a slow turn
MakeBatch(base, odd) ==
  [i \in 1..BATCH_SIZE |->
     [(IF i = OddRow THEN odd ELSE base) EXCEPT !.timestamp = i]]
ZeroBatch == [i \in 1..BATCH_SIZE |-> SensorData(0, 0, 0, 0, 0, 0)]
DetectorBatches ==
  {MakeBatch(CalmRow, odd) : odd \in OddRows}
    \cup {MakeBatch(TurnRow, odd) : odd \in BaseRows}
    \cup {ZeroBatch, << >>}

\* Lines 555-556 and 611-612: the reader replaces the published batch.
PublishBatch(new_batch) ==
  /\ current_data_batch' = new_batch
  /\ UNCHANGED << auth_vars, carry_vars, lock_vars, main_vars, mpu_vars, limit_vars, detect_vars, sampler_vars, ctor_vars, stop_vars,
                  clock_vars, speed_vars, bridge_vars, rd_pc, rd_ride_id,
                  rd_batch, current_ride_id, CSV_FILENAME, warning_files >>

\* The same two assignments, with the count of the batches the reader has
\* published since it last discarded one (lines 553-556).
RidePublish(new_batch) ==
  /\ current_data_batch' = new_batch
  /\ ride_batches' = IF new_batch = << >> THEN 0
                     ELSE Min(ride_batches + 1, MaxRideBatches)
  /\ UNCHANGED << auth_vars, lock_vars, main_vars, mpu_vars, limit_vars, detect_vars,
                  sampler_vars, ctor_vars, stop_vars, clock_vars, speed_vars,
                  bridge_vars, rd_pc, rd_ride_id, rd_batch, current_ride_id,
                  CSV_FILENAME, warning_files >>

\* Lines 299-301: what predict() may give, as class index and confidence
\* in percent; the confidence matters for class 0 only.
Predictions ==
  {<< 0, 59 >>, << 0, 60 >>, << 1, 90 >>, << 2, 90 >>, << 3, 90 >>,
   << 4, 90 >>}

\* Warning_Generate.py after its import: the model was loaded or not.
InitDetect ==
  /\ CtorReturned
  /\ InitGlobals("Warning_Generate.py")
  /\ lstm_model \in {"None", "Sequential"}
  /\ shm_writer
  /\ gps_serial

NextDetect ==
  \/ \E new_batch \in DetectorBatches : PublishBatch(new_batch)
  \/ OverspeedingIteration
  \/ PotholeIteration
  \/ SpeedyTurnsIteration
  \/ HarshBrakingIteration
  \/ SuddenAccelerationIteration
  \/ \E p \in Predictions : LstmIteration(p[1], p[2])
  \/ LstmSkip

SpecDetect == InitDetect /\ [][NextDetect]_vars

\* The reader from ride to ride, three of the detectors and main(): the
\* batches are a calm one, one with every row above the speed limit, one
\* with a vertical spike and one sampled without a speed limit, and the
\* empty list the reader leaves when it sees the ride flag cleared.
CalmBatch == MakeBatch(CalmRow, CalmRow)
\* main2.py line 628: the limit the sampler puts in a point of the batch,
\* 0.0 as long as latest_speed_limit is None; and a calm row sampled at
\* 10 km/h before the first lookup of the limit has answered.
batch_point_speed_limit(speed_limit) ==
  IF speed_limit = PyNone THEN 0 ELSE speed_limit[2]
NoLimitRow ==
  SensorData(0, 0, GravityZ, 0, 10, batch_point_speed_limit(PyNone))
RideBatches ==
  {CalmBatch, MakeBatch(TurnRow, TurnRow),
   MakeBatch(CalmRow, SensorData(0, 0, 130, 0, 10, 50)),
   MakeBatch(NoLimitRow, NoLimitRow), << >>}

InitCarry == InitDetect

NextCarry ==
  \/ \E new_batch \in RideBatches : RidePublish(new_batch)
  \/ OverspeedingIteration
  \/ PotholeIteration
  \/ HarshBrakingIteration
  \/ MainSnapshot
  \/ MainWrite(MaxCarryWrites)

SpecCarry == InitCarry /\ [][NextCarry]_vars

\* ------------------------------------------------------------- shutdown
\* main2.py lines 542 and 656-658: Ctrl-C raises KeyboardInterrupt in the
\* main thread.  Inside the try of the sampling loop (sampling or
\* finalizing) the handler leaves the ride loop for the cleanup; anywhere
\* else nothing catches it and the process ends.
KeyboardInterrupt ==
  /\ pc \in {"wait_loop", "wait_get_id", "wait_recheck", "wait_poll", "start",
             "sample", "set_inactive", "drain", "consumer_wait", "upload"}
  /\ IF Idle \/ pc = "start"
     THEN /\ pc' = "crashed"
          /\ UNCHANGED ride_log
     ELSE /\ pc' = "cleanup"
          /\ ride_log' = Append(ride_log,
                LogEntry(IF pc = "sample" THEN "stop" ELSE "stop_late"))
  /\ UNCHANGED << auth_vars, carry_vars, lock_vars, main_vars, mpu_vars, limit_vars, detect_vars, ctor_vars, stop_vars, clock_vars, speed_vars, consumer_vars,
                  bridge_vars, current_is_active, control_poll_queue,
                  csv_write_queue, batch_buffer, shm_writer, ride_id,
                  sample_count, rides_started, cp_pc, cp_result, cp_failed,
                  writers, csv_files, flag_array, data_array,
                  flag_seen_true >>

\* Line 661: stop_event.set().
Cleanup ==
  /\ pc = "cleanup"
  /\ pc' = "join"
  /\ stop_event' = TRUE
  /\ UNCHANGED << auth_vars, carry_vars, lock_vars, main_vars, mpu_vars, limit_vars, detect_vars, ctor_vars, threads, shm_read_thread_active, wg_pc,
                  clock_vars, speed_vars, consumer_vars,
                  bridge_vars, current_is_active, control_poll_queue,
                  csv_write_queue, batch_buffer, shm_writer, ride_id,
                  sample_count, rides_started, cp_pc, cp_result, cp_failed,
                  writers, csv_files, flag_array, ride_log, data_array,
                  flag_seen_true >>

\* The loop condition of worker t: 'while not stop_event.is_set()' in
\* main2.py, 'while shm_read_thread_active' in the reader (line 548) and the
\* telemetry thread (line 709), 'while True' in the detectors and the
\* classifier (lines 264, 333, 368, 408, 437, 478).
LoopCondition(t) ==
  IF t \in SamplerThreads THEN ~stop_event
  ELSE IF t \in {"SharedMemReader", "FirebasePush"}
       THEN shm_read_thread_active
       ELSE TRUE

\* Worker t finishes an iteration, finds its loop condition false and
\* returns.
LoopExit(t) ==
  /\ threads[t] = "running"
  /\ ~LoopCondition(t)
  /\ threads' = [threads EXCEPT ![t] = "stopped"]
  /\ UNCHANGED << auth_vars, carry_vars, lock_vars, main_vars, mpu_vars, limit_vars, detect_vars, ctor_vars, stop_event, shm_read_thread_active, wg_pc,
                  clock_vars, speed_vars, consumer_vars,
                  bridge_vars, current_is_active, control_poll_queue,
                  csv_write_queue, batch_buffer, shm_writer, pc, ride_id,
                  sample_count, rides_started, cp_pc, cp_result, cp_failed,
                  writers, csv_files, flag_array, ride_log, data_array,
                  flag_seen_true >>

\* The workers whose iterations are far shorter than the timeout of a join
\* (0.5 s in main2.py, 1 s in Warning_Generate.py): mpu_thread sleeps 1 ms,
\* print_worker_thread waits 0.1 s and the reader sleeps 10 ms or 0.5 s.
\* gps_thread sleeps 1 s and more, update_image_cache 1 s,
\* control_poll_thread 10 s, and speed_limit_thread and the telemetry
\* thread wait for HTTP answers.
QuickLoops == {"mpu_thread", "print_worker_thread", "SharedMemReader"}

\* The joins have returned: the quick workers that were to stop have done
\* so, and the join of any other thread returns at its timeout at the
\* latest.
JoinsReturned ==
  \A t \in QuickLoops : ~(threads[t] = "running" /\ ~LoopCondition(t))

\* The threads of a program when its main thread returns: all of them are
\* daemon threads, which end with the process wherever they are.
AtProcessExit(program_threads) ==
  [t \in DOMAIN threads |->
     IF t \in program_threads /\ threads[t] \in {"connecting", "running"}
     THEN "killed" ELSE threads[t]]

\* Lines 662-678: join every thread of the list for at most 0.5 s each
\* (the CSV writers are not in the list), close the serial port, unlink
\* the shared memory, return.
JoinAndExit ==
  /\ pc = "join"
  /\ JoinsReturned
  /\ pc' = "exited"
  /\ ride_log' = Append(ride_log, LogEntry("joined"))
  /\ threads' = AtProcessExit(SamplerThreads)
  /\ UNCHANGED << auth_vars, carry_vars, lock_vars, main_vars, mpu_vars, limit_vars, detect_vars, ctor_vars, stop_event, shm_read_thread_active, wg_pc,
                  clock_vars, speed_vars, consumer_vars,
                  bridge_vars, current_is_active, control_poll_queue,
                  csv_write_queue, batch_buffer, shm_writer, ride_id,
                  sample_count, rides_started, cp_pc, cp_result, cp_failed,
                  writers, csv_files, flag_array, data_array,
                  flag_seen_true >>

\* The sampler of Spec with the stop signal.
NextStop ==
  \/ Next
  \/ KeyboardInterrupt
  \/ Cleanup
  \/ \E t \in QuickLoops : LoopExit(t)
  \/ JoinAndExit

SpecStop == Init /\ [][NextStop]_vars

\* Warning_Generate.py lines 533-542: the reader thread connects to the
\* shared memory (it waits up to 30 s for it) and sets the flag, or fails,
\* clears the flag and returns.
ReaderConnect(ok) ==
  /\ threads["SharedMemReader"] = "connecting"
  /\ shm_read_thread_active' = ok
  /\ threads' = [threads EXCEPT !["SharedMemReader"] =
                   IF ok THEN "running" ELSE "stopped"]
  /\ UNCHANGED << auth_vars, carry_vars, lock_vars, main_vars, mpu_vars, limit_vars, detect_vars, ctor_vars, stop_event, wg_pc,
                  clock_vars, speed_vars, consumer_vars,
                  bridge_vars, current_is_active, control_poll_queue,
                  csv_write_queue, batch_buffer, shm_writer, pc, ride_id,
                  sample_count, rides_started, cp_pc, cp_result, cp_failed,
                  writers, csv_files, flag_array, ride_log, data_array,
                  flag_seen_true >>

\* Warning_Generate.py lines 808-843: Ctrl-C in the monitoring loop.
WgKeyboardInterrupt ==
  /\ wg_pc = "monitor"
  /\ wg_pc' = "shutdown"
  /\ UNCHANGED << auth_vars, carry_vars, lock_vars, main_vars, mpu_vars, limit_vars, detect_vars, ctor_vars, stop_event, threads, shm_read_thread_active,
                  clock_vars, speed_vars, consumer_vars,
                  bridge_vars, current_is_active, control_poll_queue,
                  csv_write_queue, batch_buffer, shm_writer, pc, ride_id,
                  sample_count, rides_started, cp_pc, cp_result, cp_failed,
                  writers, csv_files, flag_array, ride_log, data_array,
                  flag_seen_true >>

\* Line 845: shm_read_thread_active = False.
WgShutdown ==
  /\ wg_pc = "shutdown"
  /\ wg_pc' = "join"
  /\ shm_read_thread_active' = FALSE
  /\ UNCHANGED << auth_vars, carry_vars, lock_vars, main_vars, mpu_vars, limit_vars, detect_vars, ctor_vars, stop_event, threads,
                  clock_vars, speed_vars, consumer_vars,
                  bridge_vars, current_is_active, control_poll_queue,
                  csv_write_queue, batch_buffer, shm_writer, pc, ride_id,
                  sample_count, rides_started, cp_pc, cp_result, cp_failed,
                  writers, csv_files, flag_array, ride_log, data_array,
                  flag_seen_true >>

\* Lines 848-851: join every thread for at most 1 s each, then return.
WgJoinAndExit ==
  /\ wg_pc = "join"
  /\ JoinsReturned
  /\ wg_pc' = "exited"
  /\ threads' = AtProcessExit(WarningThreads)
  /\ UNCHANGED << auth_vars, carry_vars, lock_vars, main_vars, mpu_vars, limit_vars, detect_vars, ctor_vars, stop_event, shm_read_thread_active,
                  clock_vars, speed_vars, consumer_vars,
                  bridge_vars, current_is_active, control_poll_queue,
                  csv_write_queue, batch_buffer, shm_writer, pc, ride_id,
                  sample_count, rides_started, cp_pc, cp_result, cp_failed,
                  writers, csv_files, flag_array, ride_log, data_array,
                  flag_seen_true >>

\* A run of either program up to its exit.
InitShutdown ==
  \E program \in Programs :
    InitProgram(program) /\ shm_writer /\ gps_serial

NextShutdown ==
  \/ WaitLoop
  \/ \E r \in {"0"} : WaitGetRideId(r)
  \/ WaitRecheck
  \/ \E a \in Answers : WaitPoll(a[1], a[2], a[3])
  \/ StartRide(MaxShutdownRides)
  \/ KeyboardInterrupt
  \/ Cleanup
  \/ JoinAndExit
  \/ \E t \in SamplerThreads \cup WarningThreads : LoopExit(t)
  \/ \E ok \in BOOLEAN : ReaderConnect(ok)
  \/ WgKeyboardInterrupt
  \/ WgShutdown
  \/ WgJoinAndExit

\* Every thread gets to run: a worker whose loop condition is false leaves
\* its loop (the bodies sleep or wait for bounded times), and each main
\* thread goes on with its shutdown.  The stop signal itself is left to
\* the user.
FairShutdown ==
  /\ \A t \in SamplerThreads \cup WarningThreads : WF_vars(LoopExit(t))
  /\ WF_vars(\E ok \in BOOLEAN : ReaderConnect(ok))
  /\ WF_vars(Cleanup)
  /\ WF_vars(JoinAndExit)
  /\ WF_vars(WgShutdown)
  /\ WF_vars(WgJoinAndExit)

SpecShutdown == InitShutdown /\ [][NextShutdown]_vars /\ FairShutdown

\* ------------------------------------------------- the locks of a program
\* What a thread does is taken block by block: a block is a with statement
\* from its opening to the point where the thread holds no lock again, or
\* one sleep, or one call that reads a device, a file or the network
\* outside every with statement.  A step is << kind, lock >>.
With(lock) == << << "with", lock >>, << "end", lock >> >>
WithIo(lock) == << << "with", lock >>, << "io", "" >>, << "end", lock >> >>
Sleep == << << "sleep", "" >> >>
Io == << << "io", "" >> >>

\* main2.py lines 122-146: get_mpu_data(); with data_lock; with
\* speed_calculation_lock (line 131 and, in calculate_speed_from_accel,
\* line 83); time.sleep(0.001).
mpu_threadNested ==
  << Io,
     << << "with", "data_lock" >>, << "with", "speed_calculation_lock" >>,
        << "end", "speed_calculation_lock" >>, << "end", "data_lock" >> >>,
     Sleep >>
mpu_thread ==
  << Io, With("data_lock"), With("speed_calculation_lock"), Sleep >>

\* Lines 148-246: get_gps_data(); with speed_calculation_lock (line 172, or
\* calculate_speed_from_accel in the fallback loops, each followed by a
\* sleep); with data_lock (lines 205, 221, 239); time.sleep(1.0).
gps_thread ==
  << Io, With("speed_calculation_lock"), Sleep, With("data_lock") >>

\* Lines 248-268: with data_lock (254); get_speed_limit(), an HTTP request;
\* with data_lock (261); time.sleep(0.2).
speed_limit_thread == << With("data_lock"), Io, Sleep >>

\* Lines 270-282: glob.glob(); with image_cache_lock; time.sleep().
update_image_cache == << Io, With("image_cache_lock"), Sleep >>

\* Lines 374-396: the sleep and the HTTP request of control_poll_thread;
\* the print worker and the CSV writer wait on their queues and write.
control_poll_thread == << Sleep, Io >>
queue_worker == << Sleep, Io >>

\* main2.py main(), lines 515-642: with batch_buffer_lock (520);
\* set_ride_active and time.sleep(0.1); with speed_calculation_lock (533);
\* the sleep toward the deadline (548); with data_lock (554); with
\* image_cache_lock (286, get_latest_image_for_timestamp); with
\* batch_buffer_lock (618); the HTTP requests of the finalization.
sampler_main ==
  << With("batch_buffer_lock"), Sleep, With("speed_calculation_lock"),
     With("data_lock"), With("image_cache_lock"), Io >>

\* Warning_Generate.py lines 526-633: is_ride_active(); with data_lock (555,
\* 611); with csv_lock around open(CSV_FILENAME, 'w') (577); the sleeps.
shared_memory_reader_thread ==
  << Io, With("data_lock"), WithIo("csv_lock"), Sleep >>

\* Lines 327-516: a rule detector calls get_current_data_batch (with
\* data_lock, line 228) and update_warning (with warning_lock, line 211)
\* and sleeps; speedy_turns_thread also calls get_lstm_prediction (with
\* lstm_prediction_lock, line 222).
rule_thread == << With("data_lock"), With("warning_lock"), Sleep >>
speedy_turns_thread ==
  << With("data_lock"), With("lstm_prediction_lock"), With("warning_lock"),
     Sleep >>

\* Lines 252-324: get_current_data_batch, model.predict,
\* update_lstm_prediction (line 217), update_warning, the sleeps.
lstm_prediction_thread ==
  << With("data_lock"), With("lstm_prediction_lock"), With("warning_lock"),
     Sleep >>

\* Lines 696-766: the sleeps, get_current_data_batch, get_warnings (line
\* 638), get_lstm_prediction, update_rider_speed (an HTTP request).
firebase_push_thread ==
  << Sleep, With("data_lock"), With("warning_lock"),
     With("lstm_prediction_lock"), Io >>

\* Warning_Generate.py main(), lines 808-841: get_current_data_batch,
\* get_warnings, get_lstm_prediction, write_batch_to_csv (with csv_lock
\* around the file writes, line 659), time.sleep(1.0).
warning_main ==
  << With("data_lock"), With("warning_lock"), With("lstm_prediction_lock"),
     WithIo("csv_lock"), Sleep >>

\* The program a behaviour is about, and the blocks of its thread t.
RunningProgram == IF pc = "off" THEN "Warning_Generate.py" ELSE "main2.py"
ProgramThreads ==
  IF RunningProgram = "main2.py" THEN SamplerThreads \cup {"main"}
  ELSE WarningThreads \cup {"main"}
Blocks(t) ==
  CASE t = "mpu_thread" -> mpu_thread
    [] t = "gps_thread" -> gps_thread
    [] t = "speed_limit_thread" -> speed_limit_thread
    [] t = "update_image_cache" -> update_image_cache
    [] t = "control_poll_thread" -> control_poll_thread
    [] t \in {"print_worker_thread", "csv_writer_thread"} -> queue_worker
    [] t = "SharedMemReader" -> shared_memory_reader_thread
    [] t = "LSTM" -> lstm_prediction_thread
    [] t = "SpeedyTurns" -> speedy_turns_thread
    [] t \in {"Overspeeding", "Pothole", "HarshBraking", "SuddenAccel"}
         -> rule_thread
    [] t = "FirebasePush" -> firebase_push_thread
    [] t = "main" -> IF RunningProgram = "main2.py" THEN sampler_main
                     ELSE warning_main

\* The step thread t takes next when it goes on with the block it is in, or
\* enters block b.
NextOf(t, b) ==
  IF lock_at[t] = << 0, 0 >> THEN Blocks(t)[b][1]
  ELSE Blocks(t)[lock_at[t][1]][lock_at[t][2] + 1]
Advance(t, b) ==
  LET blk == IF lock_at[t] = << 0, 0 >> THEN b ELSE lock_at[t][1]
      pos == lock_at[t][2] + 1
  IN [lock_at EXCEPT ![t] = IF pos = Len(Blocks(t)[blk]) THEN << 0, 0 >>
                            ELSE << blk, pos >>]
Holds(t, lock) == \E i \in 1..Len(lock_held[t]) : lock_held[t][i] = lock
CanStep(t, b) ==
  /\ t \in ProgramThreads
  /\ b \in 1..Len(Blocks(t))
  /\ lock_at[t] # << 0, 0 >> => b = lock_at[t][1]

\* with lock: the thread gets the lock when no thread holds it
\* (threading.Lock is not reentrant), and waits otherwise.
LockAcquire(t, b) ==
  /\ CanStep(t, b)
  /\ NextOf(t, b)[1] = "with"
  /\ \A u \in LockThreads : ~Holds(u, NextOf(t, b)[2])
  /\ lock_held' = [lock_held EXCEPT ![t] = Append(@, NextOf(t, b)[2])]
  /\ lock_at' = Advance(t, b)
  /\ last_step' = << t, "with" >>
  /\ UNCHANGED << auth_vars, carry_vars, sampler_vars, consumer_vars, mpu_vars, limit_vars,
                  detect_vars, ctor_vars, stop_vars, clock_vars, speed_vars,
                  bridge_vars, main_vars >>

\* The end of a with statement releases its lock.
LockRelease(t, b) ==
  /\ CanStep(t, b)
  /\ NextOf(t, b)[1] = "end"
  /\ lock_held' = [lock_held EXCEPT ![t] = SubSeq(@, 1, Len(@) - 1)]
  /\ lock_at' = Advance(t, b)
  /\ last_step' = << t, "end" >>
  /\ UNCHANGED << auth_vars, carry_vars, sampler_vars, consumer_vars, mpu_vars, limit_vars,
                  detect_vars, ctor_vars, stop_vars, clock_vars, speed_vars,
                  bridge_vars, main_vars >>

\* A step that takes time and leaves the locks as they are.
ThreadPause(t, b) ==
  /\ lock_at' = Advance(t, b)
  /\ last_step' = << t, NextOf(t, b)[1] >>
  /\ UNCHANGED << auth_vars, carry_vars, lock_held, sampler_vars, consumer_vars, mpu_vars,
                  limit_vars, detect_vars, ctor_vars, stop_vars, clock_vars,
                  speed_vars, bridge_vars, main_vars >>

\* time.sleep().
ThreadSleep(t, b) ==
  /\ CanStep(t, b)
  /\ NextOf(t, b)[1] = "sleep"
  /\ ThreadPause(t, b)

\* A call that reads or writes a device, a file or the network.
ThreadIo(t, b) ==
  /\ CanStep(t, b)
  /\ NextOf(t, b)[1] = "io"
  /\ ThreadPause(t, b)

MaxBlocks == 6
InitLocks ==
  \E program \in Programs :
    InitProgram(program) /\ shm_writer /\ gps_serial

NextLocks ==
  \/ \E t \in LockThreads, b \in 1..MaxBlocks : LockAcquire(t, b)
  \/ \E t \in LockThreads, b \in 1..MaxBlocks : LockRelease(t, b)
  \/ \E t \in LockThreads, b \in 1..MaxBlocks : ThreadSleep(t, b)
  \/ \E t \in LockThreads, b \in 1..MaxBlocks : ThreadIo(t, b)

SpecLocks == InitLocks /\ [][NextLocks]_vars

\* ------------------------------------------ firebase_uploader.py: auth
\* An HTTP request is answered with status 200, or it fails: another
\* status, on which raise_for_status() raises, a timeout or a connection
\* error.
HttpAnswers == {"200", "error"}
Token == PyStr("token")

\* Lines 51-59, _current_auth_token: with no token, or a token within 60 s
\* of its expiry, call _refresh_token() when there is a refresh token and
\* _sign_in_email_password() otherwise; whatever the call raises leaves the
\* function.  The requests made, each with its answer.
AuthRequests(refresh, sign_in) ==
  IF ID_TOKEN # PyNone /\ ~token_due THEN << >>
  ELSE IF REFRESH_TOKEN # PyNone THEN << << "refresh", refresh >> >>
  ELSE << << "sign_in", sign_in >> >>

\* firebase_push_thread lines 740-760 with update_rider_speed, lines 63-81:
\* the URL is built first, which calls _current_auth_token() outside the
\* try of update_rider_speed, so an exception of the auth request reaches
\* the push thread, which prints it and skips the push; otherwise the
\* PATCH is sent.  A refresh token the backend has revoked is never
\* answered with 200.  Lines 21-49: a 200 answer stores the new tokens and
\* expiry.
UpdateRiderSpeed(refresh, sign_in, patch) ==
  /\ pushes < MaxPushes
  /\ refresh_revoked => refresh = "error"
  /\ pushes' = pushes + 1
  /\ LET calls == AuthRequests(refresh, sign_in)
         ok == calls = << >> \/ calls[Len(calls)][2] = "200"
         renewed == calls # << >> /\ ok
     IN /\ auth_calls' = calls
        /\ ID_TOKEN' = IF renewed THEN Token ELSE ID_TOKEN
        /\ REFRESH_TOKEN' = IF renewed THEN Token ELSE REFRESH_TOKEN
        /\ token_due' = IF renewed THEN FALSE ELSE token_due
        /\ refresh_revoked' =
             IF renewed /\ calls[Len(calls)][1] = "sign_in" THEN FALSE
             ELSE refresh_revoked
        /\ push_outcome' = IF ~ok THEN "skipped"
                           ELSE IF patch = "200" THEN "pushed" ELSE "failed"
  /\ UNCHANGED << sampler_vars, consumer_vars, mpu_vars, limit_vars,
                  detect_vars, ctor_vars, stop_vars, clock_vars, speed_vars,
                  bridge_vars, main_vars, lock_vars, carry_vars >>

\* Time passes: the token comes within 60 s of its expiry.
TokenDue ==
  /\ ID_TOKEN # PyNone
  /\ ~token_due
  /\ token_due' = TRUE
  /\ UNCHANGED << ID_TOKEN, REFRESH_TOKEN, refresh_revoked, auth_calls,
                  push_outcome, pushes, sampler_vars, consumer_vars,
                  mpu_vars, limit_vars, detect_vars, ctor_vars, stop_vars,
                  clock_vars, speed_vars, bridge_vars, main_vars, lock_vars,
                  carry_vars >>

\* The backend revokes the refresh token it issued (the account's password
\* was changed, the account disabled and enabled again, the token expired).
RevokeRefreshToken ==
  /\ REFRESH_TOKEN # PyNone
  /\ ~refresh_revoked
  /\ refresh_revoked' = TRUE
  /\ UNCHANGED << ID_TOKEN, REFRESH_TOKEN, token_due, auth_calls,
                  push_outcome, pushes, sampler_vars, consumer_vars,
                  mpu_vars, limit_vars, detect_vars, ctor_vars, stop_vars,
                  clock_vars, speed_vars, bridge_vars, main_vars, lock_vars,
                  carry_vars >>

InitAuth == InitProgram("Warning_Generate.py") /\ shm_writer /\ gps_serial

NextAuth ==
  \/ \E refresh, sign_in, patch \in HttpAnswers :
       UpdateRiderSpeed(refresh, sign_in, patch)
  \/ TokenDue
  \/ RevokeRefreshToken

SpecAuth == InitAuth /\ [][NextAuth]_vars

\* ================================================================ claims
\* C1: while the ride controller is IDLE the shared-memory flag has
\* active = 0 and no row is appended to any rawdata_{ride_id}.csv file.
C1_IdleNoAppend ==
  [][Idle => (flag_array[1] = 0 /\ csv_files' = csv_files)]_vars

\* C2: the sampler leaves IDLE for ride id R only after the backend answered
\* is_active = true for R; a write to current_is_active by the control-poll
\* thread never starts a ride whose own flag was not observed true.
C2_StartOnlyAfterOwnFlag ==
  [][(pc = "start" /\ pc' # "start") => (ride_id # None /\ flag_seen_true)]_vars

\* C3: when ride R is observed inactive the sampler sets the flag to (0, R),
\* then drains the CSV queue, then waits for the consumer, then invokes the
\* raw-data upload for R exactly once, and only then returns to IDLE; no
\* sample of R is emitted after the flag was cleared.
FinalizationSteps == <<"flag_cleared", "drain", "consumer_wait", "upload">>
C3_FinalizationOrder ==
  /\ (shm_writer /\ pc \in {"drain", "consumer_wait", "upload"})
       => flag_array = <<0, IntOf(ride_id)>>
  /\ (shm_writer /\ Idle /\ rides_started > 0)
       => /\ [i \in DOMAIN ride_log |-> ride_log[i].step] = FinalizationSteps
          /\ \A i \in DOMAIN ride_log :
               /\ ride_log[i].ride = ride_log[1].ride
               /\ ride_log[i].samples = ride_log[1].samples

\* C4: a control poll that fails leaves the observed is_active state as it
\* was; a polling failure never ends an active ride.
C4_PollFailureKeepsState ==
  [][(cp_pc = "assign" /\ cp_pc' = "sleep" /\ cp_failed)
       => current_is_active' = current_is_active]_vars

\* C5: every batch written to the shared-memory slot is 104 consecutive
\* samples of the current ride in emission order, every batch lies wholly
\* after the batch written before it (no sample is in two batches), and no
\* batch mixes samples of two rides.
ConsecutiveOfRide(arr, no) ==
  \A i \in 1..BATCH_SIZE :
    /\ arr[i].no = no
    /\ arr[i].n = arr[1].n + (i - 1)
WhollyAfter(old, new) ==
  \/ old = ZeroArray
  \/ old[BATCH_SIZE].no < new[1].no
  \/ old[BATCH_SIZE].no = new[1].no /\ old[BATCH_SIZE].n < new[1].n
C5_BatchesConsecutive ==
  [][data_array' # data_array
       => /\ ConsecutiveOfRide(data_array', rides_started)
          /\ WhollyAfter(data_array, data_array')]_vars

\* C5 witness: the second ride has written its second batch, after a first
\* ride that wrote one and ended with a partly filled buffer.
C5_Witness ==
  /\ rides_started = 2
  /\ data_array[1].no = 2
  /\ data_array[1].n = BATCH_SIZE
  /\ Len(batch_buffer) = 1

\* C6: write_batch returns True only if all 104 rows of the slot were
\* replaced by the rows of the given batch; whenever it returns False the
\* slot is unchanged; a batch with a malformed point never yields True with
\* only part of the rows replaced.
C6_WriteBatchAllOrNothing ==
  [][(wb_ret = PyNone /\ wb_ret' # PyNone)
       => /\ wb_ret' = PyBool(TRUE)
               => \A i \in 1..BATCH_SIZE : data_array'[i] = wb_arg[i]
          /\ wb_ret' = PyBool(FALSE) => data_array' = data_array]_vars

\* C7: the consumer copies the data slot, and publishes a batch to the
\* detectors, only while the shared-memory flag active is nonzero.
C7_ReadOnlyWhileActive ==
  [][((rd_pc = "read" /\ rd_pc' = "publish")
        \/ (rd_pc = "publish" /\ rd_pc' = "check"))
       => flag_array[1] # 0]_vars

\* C8: the consumer creates warnings_{ride_id}.csv once per ride, when it
\* sees the flag nonzero after having seen it 0; while it goes on seeing the
\* flag nonzero with the same ride_id it leaves every file as it is, so no
\* appended row is lost.
C8_FileCreatedOncePerRide ==
  [][(rd_pc = "ride_id" /\ rd_pc' = "read")
       => IF current_ride_id = PyNone
          THEN warning_files'[warnings_csv(flag_array[2])] = << "header" >>
          ELSE current_ride_id[2] = ToString(flag_array[2])
                 => warning_files' = warning_files]_vars

\* C9: after the GNSS thread processes a fix whose speed s is in
\* (0.5, 300] km/h, the shared integrator has v = s / 3.6 m/s and the time
\* of the fix as its time reference.
C9_ValidFixAnchorsIntegrator ==
  [][(gps_iterations' = gps_iterations + 1 /\ latest_speed_source' = "GPS")
       => /\ current_speed_ms' = (latest_gps'.spd[2] * 250) \div 9
          /\ last_speed_calc_ts' = PyFloat(perf_counter)]_vars

\* C10: every sample in the CSV queue and in the batch buffer carries a
\* numeric speed with 0 <= speed_kmh <= 300.
SpeedInRange(spd) ==
  spd[1] = "float" /\ 0 <= spd[2] /\ spd[2] <= GPS_SPEED_MAX
C10_EmittedSpeedInRange ==
  /\ \A i \in DOMAIN csv_write_queue : SpeedInRange(csv_write_queue[i].spd)
  /\ \A i \in DOMAIN batch_buffer : SpeedInRange(batch_buffer[i].spd)

\* C11: at the start of every ride the speed integrator is reset to v = 0
\* with an unset time reference, so that the first accelerometer speed of
\* the ride does not depend on what was integrated before.
C11_RideStartResetsIntegrator ==
  [][(pc = "start" /\ pc' = "sample")
       => (current_speed_ms' = 0 /\ last_speed_calc_ts' = PyNone)]_vars

\* C12: no sample is emitted with a GNSS-derived speed when the last GNSS
\* update is more than 5 s old: a sample taken while the latest fix is
\* stale does not carry the source tag GPS.
C12_StaleFixNotEmitted ==
  [][(sample_count' = sample_count + 1
        /\ perf_counter - gps_last_update_time > GPS_TIMEOUT_SECONDS)
       => latest_speed_source # "GPS"]_vars

\* C13: when a GNSS read fails the published position keeps the last valid
\* (lat, lon): an iteration of gps_thread that falls back to the
\* accelerometer leaves a published position in place.
C13_FailedReadKeepsPosition ==
  [][(gps_iterations' = gps_iterations + 1 /\ latest_gps.fix
        /\ latest_speed_source' = "ACCEL")
       => latest_gps'.fix]_vars

\* C14: without a GNSS device every emitted sample carries a numeric
\* accelerometer-derived speed with the source tag ACCEL.
C14_NoGnssSamplesAreAccel ==
  ~gps_serial =>
    \A i \in 1..Len(csv_write_queue) :
      /\ csv_write_queue[i].spd[1] = "float"
      /\ csv_write_queue[i].speed_source = "ACCEL"

\* An x-axis reading of acc_x micro-g lies within the deadband around the
\* bias, and last_accel_ms2 holds such a reading.
InDeadband(acc_x) == Abs(acc_x - OPTIMAL_BIAS) < DEADBAND_G
HoldsDeadbandReading(accel_ms2) ==
  /\ accel_ms2 % G_TO_MS2 = 0
  /\ InDeadband(accel_ms2 \div G_TO_MS2)

\* C15: while the x-axis reading satisfies |acc_x - 0.117588 g| < 0.02 g,
\* calls of calculate_speed_from_accel (by mpu_thread after it stored the
\* reading, by gps_thread in its fallback loop) leave the integrator speed
\* exactly unchanged, whatever time has passed between the calls.
C15_DeadbandKeepsSpeed ==
  [][HoldsDeadbandReading(last_accel_ms2')
       => current_speed_ms' = current_speed_ms]_vars

\* mpu_thread has just integrated a deadband reading over a positive time
\* step while the integrator held a speed other than zero.
C15_Witness ==
  /\ HoldsDeadbandReading(last_accel_ms2)
  /\ mpu_reads > 0
  /\ current_speed_ms # 0
  /\ last_speed_calc_ts = PyFloat(perf_counter)

\* C16: within a ride the timestamps of successively emitted samples are
\* strictly increasing, also when the sampler is behind its deadline and
\* emits samples without sleeping in between.
C16_TimestampsIncrease ==
  [][(sample_count > 0 /\ sample_count' = sample_count + 1)
       => timestamp_ms'[2] > timestamp_ms[2]]_vars

\* C17: every sample enqueued during ride R is appended to rawdata_R.csv and
\* to no other ride's file, also in the second and later rides of a run, and
\* at most one CSV writer thread consumes the shared CSV queue.
C17_RowsInOwnFileOneWriter ==
  /\ \A f \in DOMAIN csv_files :
       \A i \in 1..Len(csv_files[f]) : csv_files[f][i].ride = f
  /\ Len(writers) <= 1

\* The sampler emits a sample while the CSV queue is full.
DropStep ==
  sample_count' = sample_count + 1 /\ Len(csv_write_queue) >= MaxQueue

\* What the program holds besides the queue and what the sampler writes for
\* every sample it takes (its sample counter, its clock readings, the batch
\* buffer and the slot): a count or a log of the drops would be part of it.
StateBesidesSample ==
  << current_is_active, control_poll_queue, shm_writer, pc, ride_id,
     rides_started, cp_pc, cp_result, cp_failed, writers, csv_files,
     flag_array, ride_log, flag_seen_true, speed_vars, consumer_vars,
     bridge_vars >>

\* The sample just taken is the last point of the batch buffer.
AppendedToBatchBuffer ==
  /\ Len(batch_buffer') = Len(batch_buffer) + 1
  /\ batch_buffer'[Len(batch_buffer')].ride = ride_id
  /\ batch_buffer'[Len(batch_buffer')].n = sample_count

\* C18: when the CSV queue is full the sampler does not block: the new
\* sample is dropped from the CSV path, the queue contents are unchanged,
\* the drop is counted, and the same sample is still appended to the batch
\* buffer for shared memory.
C18_FullQueueDropIsCounted ==
  [][DropStep =>
       /\ csv_write_queue' = csv_write_queue
       /\ (shm_writer /\ Len(batch_buffer) + 1 < BATCH_SIZE)
            => AppendedToBatchBuffer
       /\ StateBesidesSample' # StateBesidesSample]_vars

\* Step a of the finalization was taken before step b.
Before(a, b) ==
  \E i, j \in DOMAIN ride_log :
    i < j /\ ride_log[i].step = a /\ ride_log[j].step = b

\* C19: when the stop signal arrives during an active ride the sampler
\* finalizes that ride before it exits: the shared-memory flag is set to
\* active = 0, the CSV queue is flushed and the upload is triggered, and
\* only then are the threads joined.
C19_StopFinalizesRide ==
  (pc = "exited" /\ \E i \in DOMAIN ride_log : ride_log[i].step = "stop")
    => /\ shm_writer => flag_array[1] = 0
       /\ Before("drain", "joined")
       /\ Before("upload", "joined")

\* Every started worker of the given threads has left its loop.
LoopsExited(program_threads) ==
  \A t \in program_threads : threads[t] \in {"unstarted", "stopped"}

\* C20: once the stop flag of a process is set, every worker loop of that
\* process eventually exits: the IMU, GNSS, speed-limit, control-poll,
\* CSV-writer and print threads of the sampler, and the shared-memory
\* reader, the telemetry thread, the rule detectors and the classifier
\* thread of the warning engine.
C20_WorkerLoopsExit ==
  /\ stop_event ~> LoopsExited(SamplerThreads)
  /\ (wg_pc \in {"join", "exited"}) ~> LoopsExited(WarningThreads)

\* C21: if a region with the configured name (data or flag) already exists
\* when SensorDataWriter(create_new=True) is constructed, the constructor
\* terminates successfully with both regions unlinked, recreated and
\* zero-initialised, the flag word being (0, 0).
C21_StaleRegionsRecreated ==
  (stale_at_boot /\ ctor_pc \in {"done", "raised", "returned", "failed"})
    => /\ ctor_pc \in {"done", "returned"}
       /\ regions = [data |-> "zero", flag |-> <<0, 0>>]

\* The five rule detectors, and those two of them that look at the time
\* stamps first.
RuleIteration ==
  \/ OverspeedingIteration
  \/ PotholeIteration
  \/ SpeedyTurnsIteration
  \/ HarshBrakingIteration
  \/ SuddenAccelerationIteration
SlopeIteration == HarshBrakingIteration \/ SuddenAccelerationIteration

\* The batch of the example: speed 60 under a limit of 50 and a yaw rate of
\* 0.8 rad/s on all rows; and the warning vector it is said to give.
ExampleBatch == MakeBatch(TurnRow, TurnRow)
ExampleVector == [index \in 0..5 |-> IF index \in {0, 3} THEN 1 ELSE 0]

\* C22: an iteration of the speedy-turn detector writes 1 to slot 3 only if
\* the latest label is LEFT or RIGHT and some row of the batch has
\* |gyro_z| > 0.5 rad/s and speed > 20 km/h; under any other label it
\* writes 0.  On the example batch under the label LEFT every rule
\* detector writes the value [1,0,0,1,0,0] has in its slot.
C22_SpeedyTurnGated ==
  [][/\ (current_data_batch' = current_data_batch /\ SpeedyTurnsIteration) =>
          /\ last_update'[1] = 3
          /\ warning_state'[3] = last_update'[2]
          /\ warning_state'[3] = 1 =>
               /\ lstm_last_prediction \in {"LEFT", "RIGHT"}
               /\ \E i \in 1..BATCH_SIZE :
                     /\ Abs(current_data_batch[i].angular_z) > 5
                     /\ current_data_batch[i].speed > 20
          /\ lstm_last_prediction \notin {"LEFT", "RIGHT"}
               => warning_state'[3] = 0
     /\ (/\ lstm_last_prediction = "LEFT"
         /\ current_data_batch = ExampleBatch
         /\ RuleIteration)
          => /\ Len(last_update') = 2
             /\ last_update'[2] = ExampleVector[last_update'[1]]]_vars

\* The example's outcome: the vector is [1,0,0,1,0,0] on the example batch,
\* the speedy-turn detector having just written its 1.
C22_Witness ==
  /\ current_data_batch = ExampleBatch
  /\ lstm_last_prediction = "LEFT"
  /\ warning_state = ExampleVector
  /\ last_update = << 3, 1 >>

C24_LabelIsAClass ==
  /\ [](lstm_last_prediction \in {"BUMP", "LEFT", "RIGHT", "STOP", "STRAIGHT"})
  /\ [][lstm_last_prediction' # lstm_last_prediction
          => \E p \in Predictions : LstmIteration(p[1], p[2])]_vars

\* C25: the speed-limit fetcher issues at most one lookup per 50 s, also
\* after a lookup that failed or returned no speed limit: two successive
\* lookups are at least SPEED_LIMIT_REFRESH_S apart.
C25_LookupsFiftySecondsApart ==
  [][(/\ last_speed_limit_fetch' # last_speed_limit_fetch
      /\ last_speed_limit_fetch # LongAgo)
       => last_speed_limit_fetch'[2] - last_speed_limit_fetch[2]
            >= SPEED_LIMIT_REFRESH_S]_vars

\* C26: a failed lookup leaves latest_speed_limit at its previous value,
\* and a known limit is never replaced by a missing one.
C26_FailedLookupKeepsLimit ==
  [][/\ (\E pause \in LimitPauses : SpeedLimitIteration(PyNone, pause))
          => latest_speed_limit' = latest_speed_limit
     /\ latest_speed_limit # PyNone => latest_speed_limit' # PyNone]_vars

\* C27: if an IMU device read raises, the published latest IMU reading
\* keeps its previous value, and a sample taken once a read has succeeded
\* carries no missing (None) IMU fields, neither in the row queued for the
\* CSV nor in the point appended to the shared-memory batch.
C27_FailedReadKeepsImu ==
  [][/\ (\E elapsed \in MpuElapsed : MpuRead(PyNone, elapsed))
          => latest_mpu' = latest_mpu
     /\ (mpu_read_ok /\ Len(csv_write_queue') > Len(csv_write_queue))
          => csv_write_queue'[Len(csv_write_queue')].mpu # PyNone
     /\ (mpu_read_ok /\ Len(batch_buffer') > Len(batch_buffer))
          => batch_buffer'[Len(batch_buffer')].mpu # PyNone]_vars

\* C28: successive rides of a device get distinct, strictly increasing
\* integer ride ids, so no two rides share rawdata_{id}.csv or
\* warnings_{id}.csv, also when the backend call for the next ride id fails
\* or no ride record was created for the previous ride.  writers[i].file
\* is the id under which the i-th ride of the run opened its CSV file;
\* the rides that got an id from the backend call are compared.
C28_RideIdsIncrease ==
  \A i, j \in DOMAIN writers :
     (i < j /\ IsDigit(writers[i].file) /\ IsDigit(writers[j].file))
       => IntOf(writers[i].file) < IntOf(writers[j].file)

\* C29: for every ride, also the second and later rides of a run, the
\* control-poll thread polls the is_active flag of the ride being logged:
\* while the sampler logs ride_id, control_poll_queue holds that id.
C29_PollsCurrentRide ==
  (pc = "sample" /\ IsDigit(ride_id))
    => (control_poll_queue # << >> /\ Head(control_poll_queue) = ride_id)

\* C30: every batch the warning engine processes during ride R was written
\* by the sampler during ride R: the batch the reader publishes to the
\* detectors consists of points of the ride in progress, never of the
\* slot's previous contents (the zero-filled slot after boot, the last
\* batch of the previous ride).
C30_PublishedBatchOfCurrentRide ==
  [][ReaderPublish =>
       \A i \in 1..Len(current_data_batch') :
          /\ current_data_batch'[i].no = rides_started
          /\ current_data_batch'[i].ride = ride_id]_vars

\* The batches appended to a warnings file: its entries after the header,
\* which is the first line of every file that is not empty.
Appended(f) == 2..Len(warning_files[f])
IsAppended(point) ==
  \E f \in WarningFileNames : \E i \in Appended(f) :
    /\ warning_files[f][i].first.no = point.no
    /\ warning_files[f][i].first.n = point.n

\* C31: each batch the sampler writes during a ride is appended to the
\* warnings file exactly once, as 104 rows: no file holds the same batch
\* twice, and a batch is not replaced in the slot before it was appended.
C31_BatchAppendedOnce ==
  /\ \A f \in WarningFileNames : \A i, j \in Appended(f) :
       (/\ warning_files[f][i].first.no >= 1
        /\ warning_files[f][i].first.no = warning_files[f][j].first.no
        /\ warning_files[f][i].first.n = warning_files[f][j].first.n) => i = j
  /\ (data_array # ZeroArray /\ ~IsAppended(data_array[1]))
       => Len(batch_buffer) < BATCH_SIZE - 1

\* C32: the rows of a batch main() copied during ride R are appended to
\* warnings_R.csv only, the file CSV_FILENAME named when the copy was
\* taken, whatever happens to the ride before write_batch_to_csv runs.
C32_RowsGoToTheirRide ==
  [][(main_pc = "write" /\ main_pc' = "check" /\ snapshot_active)
       => \A f \in WarningFileNames :
            f # snapshot_csv => warning_files'[f] = warning_files[f]]_vars

\* The stop flag of the process thread t belongs to: stop_event in
\* main2.py; in Warning_Generate.py main() has cleared
\* shm_read_thread_active at line 845.
StopFlagSet(t) ==
  IF t \in SamplerThreads THEN stop_event
  ELSE wg_pc \in {"join", "exited"}

\* C33: no worker thread of either process terminates while the stop flag
\* of its process is unset; the telemetry push thread, too, keeps running
\* when it starts before the reader thread has set shm_read_thread_active.
C33_WorkersRunUntilStop ==
  [][\A t \in SamplerThreads \cup WarningThreads :
       (threads[t] = "running" /\ threads'[t] = "stopped")
         => StopFlagSet(t)]_vars

\* C34: no thread of either process acquires a second lock while it holds
\* one, or waits for one; no thread sleeps or performs device, file or
\* network I/O while it holds data_lock.  A thread that holds a lock is
\* therefore never waiting, and no interleaving deadlocks.
C34_OneLockAtATime ==
  /\ \A t \in LockThreads : Len(lock_held[t]) <= 1
  /\ \A t \in ProgramThreads :
       lock_held[t] # << >> => NextOf(t, 1)[1] # "with"
  /\ (last_step[2] \in {"sleep", "io"})
       => ~Holds(last_step[1], "data_lock")

\* C34 witness: two threads of the sampler hold a lock each, data_lock one
\* of them, while a third has just issued its HTTP request.
C34_Witness ==
  /\ lock_held["mpu_thread"] = << "data_lock" >>
  /\ lock_held["gps_thread"] = << "speed_calculation_lock" >>
  /\ last_step = << "speed_limit_thread", "io" >>

\* The slot each thread of the warning engine writes.
SlotWriter(index) ==
  CASE index = 0 -> OverspeedingIteration
    [] index = 1 -> \/ \E p \in Predictions : LstmIteration(p[1], p[2])
                    \/ LstmSkip
    [] index = 2 -> PotholeIteration
    [] index = 3 -> SpeedyTurnsIteration
    [] index = 4 -> HarshBrakingIteration
    [] index = 5 -> SuddenAccelerationIteration

\* C35: each index of the warning vector is written by one thread only (0
\* overspeed, 1 classifier, 2 pothole, 3 speedy turn, 4 harsh brake, 5
\* sudden acceleration); a write through update_warning puts its value in
\* its own index and leaves every other index as it was, so that the
\* vector get_warnings copies holds the last write to each index.
C35_EachSlotOneWriter ==
  [][(current_data_batch' = current_data_batch /\ Len(last_update') > 0)
       => /\ SlotWriter(last_update'[1])
          /\ \A j \in 0..5 :
               j # last_update'[1] => warning_state'[j] = warning_state[j]
          /\ IF Len(last_update') = 2
             THEN warning_state'[last_update'[1]] = last_update'[2]
             ELSE warning_state' = warning_state]_vars

\* C35 witness: the overspeed and the speedy-turn slots were raised by
\* their threads, and the harsh-brake detector has written its 0 since.
C35_Witness ==
  /\ warning_state[0] = 1
  /\ warning_state[3] = 1
  /\ last_update = << 4, 0 >>

\* C36: every iteration of a rule detector on a full batch of 104 rows
\* writes to its slot the 0 or 1 it computed from that batch, so that no
\* slot keeps a value computed from an older batch: a slot that is 1 when
\* the iteration of its detector ends was written 1 by that iteration.
C36_SlotFromThisBatch ==
  [][(/\ current_data_batch' = current_data_batch
      /\ Len(last_update') > 0
      /\ warning_state'[last_update'[1]] = 1
      /\ RuleIteration)
       => last_update' = << last_update'[1], 1 >>]_vars

\* C37: warning bits are not carried over from ride to ride: when main()
\* appends the batch that is the only one published since the reader
\* discarded the batch of the ride before, a raised overspeed or pothole
\* bit in the rows was computed from that batch.
C37_NoCarryOver ==
  [][(/\ main_pc = "write"
      /\ main_pc' = "check"
      /\ ride_batches = 1
      /\ current_batch = current_data_batch)
       => LET written == warning_files'[CSV_FILENAME][Len(warning_files'[CSV_FILENAME])]
          IN /\ written.warnings[0] = 1 => overspeeding(current_batch)
             /\ written.warnings[2] = 1 => pothole_detected(current_batch)]_vars

\* C38: the overspeed flag is raised only when a known speed limit is
\* exceeded: on a batch sampled while no limit had been fetched (its rows
\* carry the limit 0.0) the overspeed detector writes 0, whatever the
\* speed.
C38_NoLimitNoOverspeed ==
  [][(/\ current_data_batch' = current_data_batch
      /\ OverspeedingIteration
      /\ \A i \in 1..BATCH_SIZE :
           current_data_batch[i].speed_limit = batch_point_speed_limit(PyNone))
       => warning_state'[0] = 0]_vars

\* C39: a sampler that was held up does not catch up: a sample that follows
\* another one of the ride is emitted at its deadline, after the sleep
\* toward it, or at least one sampling period after the sample before.
C39_NoCatchUp ==
  [][(sample_count > 0 /\ sample_count' = sample_count + 1)
       => \/ time_time' <= next_sample_time[2]
          \/ time_time' - time_time >= SAMPLE_INTERVAL]_vars

\* C40: a push whose token refresh fails goes on to sign in with email and
\* password, and is skipped only if that sign-in fails as well.
C40_RefreshFailureFallsBack ==
  [][pushes' = pushes + 1
       => /\ \A i \in 1..Len(auth_calls') :
               auth_calls'[i] = << "refresh", "error" >>
                 => \E j \in (i + 1)..Len(auth_calls') :
                      auth_calls'[j][1] = "sign_in"
          /\ push_outcome' = "skipped"
               => auth_calls'[Len(auth_calls')] = << "sign_in", "error" >>]_vars

====
